---- MODULE Spec2Model ----
(***************************************************************************)
(* Model of the AutoRfp.ai backend: the proposal services                  *)
(* (parseProposalsService, awardProposalService, rejectProposalService,    *)
(* sendRfpService) over the Sequelize/Postgres datastore, and the IMAP     *)
(* inbox poller (pollInboxForRfpEmails).                                   *)
(*                                                                         *)
(* Every `await` of a service is one step of the model, so that two        *)
(* requests served by the same Node process interleave exactly where the   *)
(* event loop lets them.  The datastore is Postgres at its default         *)
(* isolation (READ COMMITTED): a read sees committed rows, a transaction's *)
(* writes are staged in the call and become visible at commit, and a row   *)
(* written (or read FOR UPDATE) by an open transaction is locked against   *)
(* every other writer until that transaction ends.                         *)
(***************************************************************************)
EXTENDS Integers, Sequences, FiniteSets, TLC

\* ------------------------------------------------------------------ bounds
MaxSends == 1
MaxParses == 2
MaxAwards == 1
MaxRejects == 1
MaxProposals == 3
MaxEmails == 2

\* The participants invited to the one Request of the model, and the
\* requests the Node process serves at the same time.
Vendors == {1, 2}
Calls == {1, 2}
Pids == 1..MaxProposals

\* How many calls of each service a run of the services starts.
Budget == [award |-> MaxAwards, reject |-> MaxRejects, parse |-> MaxParses,
           send |-> MaxSends]

VARIABLES
  rfpStatus,     \* rfps.status of the one Request of the model
  proposals,     \* proposals table: pid -> row (vendor = 0: no such row)
  nextPid,       \* next primary key handed out by Proposals.create
  rfpLock,       \* call holding the row lock of the Request (0: none)
  propLock,      \* pid -> call holding the row lock of that Offer (0: none)
  mappings,      \* rfp_vendors table: vendor -> row (status "none": no row)
  mapLock,       \* vendor -> call holding the row lock of that mapping
  nextToken,     \* next reply token generateReplyToken hands out
  outbox,        \* invitations queued for sendRfpInviteEmails
  emails,        \* emails table, in created_at order
  call,          \* per request slot: position and locals of the service
  ops,           \* service -> number of calls started so far
  awardNotifs,   \* vendor -> award notifications dispatched
  rejectNotifs,  \* vendor -> rejection notifications dispatched
  recomputes,    \* vendor -> rating recomputations dispatched
  mailbox,       \* INBOX: the messages in sequence-number order
  nextUid,       \* UIDNEXT of the INBOX
  lastProcessedUid, \* the poller's in-memory watermark
  poller,        \* per poll run: position and locals
  polls,         \* number of poll runs started so far
  runner,        \* the processConcurrency call: position and locals
  retry,         \* the sendEmailWithRetry call: position and locals
  deliv,         \* per invitation delivery run: position and locals
  budget,        \* service -> number of calls the run may start
  route,         \* the reply-address round trip: position and values
  bg,            \* the callbacks scheduled after a commit, and their errors
  proposalItems, \* proposal_items table: pid -> the reply its rows come from
  emptyPayload,  \* (call, vendor) pairs whose extracted payload has no items
  vendorStats,   \* one vendor: its Offers, its rating, its rating updates
  mappingRows    \* vendor -> number of rfp_vendors rows of the Request

offerVars == <<rfpStatus, proposals, nextPid, rfpLock, propLock, mappings,
               mapLock, nextToken, outbox, emails, call, ops, awardNotifs,
               rejectNotifs, recomputes>>

pollVars == <<mailbox, nextUid, lastProcessedUid, poller, polls>>

\* The state of the reply-address routing functions and of the callbacks
\* the services schedule with setImmediate, and the line items of the Offers.
\* The state of the extraction and of the vendor statistics, and the count
\* of the mapping rows.
lateVars == <<emptyPayload, vendorStats, mappingRows>>

extVars == <<route, bg, proposalItems, lateVars>>

\* The state of the email sending utilities and of the routing functions.
auxVars == <<runner, retry, deliv, budget, extVars>>

vars == <<offerVars, pollVars, auxVars>>

\* ------------------------------------------------------------ data shapes
NoRow == [vendor |-> 0, status |-> "none", version |-> 0, email_id |-> 0]

NoMapping == [status |-> "none", token |-> 0, last_email_id |-> 0]

IdleCall ==
  [pc |-> "idle", op |-> "none", v |-> 0, vs |-> {}, rfp |-> "none",
   tgt |-> 0, tgtStatus |-> "none", sibs |-> {},
   best |-> [u \in Vendors |-> 0], parsed |-> {},
   existing |-> [u \in Vendors |-> 0], todo |-> {},
   wStatus |-> [p \in Pids |-> "-"], wEmail |-> [p \in Pids |-> 0],
   wNew |-> [p \in Pids |-> 0], wUpd |-> {}, wRfp |-> "-",
   mapSeen |-> [u \in Vendors |-> NoMapping],
   wMap |-> [u \in Vendors |-> NoMapping], queue |-> {},
   result |-> "none"]

\* What a finished call leaves behind: its arguments, what it found and
\* what it returned.
Finished(c, res) ==
  [IdleCall EXCEPT !.op = call[c].op, !.v = call[c].v, !.result = res]

\* A call of service op may start in slot c.
CanStart(c, op) == call[c].pc = "idle" /\ ops[op] < budget[op]

Started(op) == [ops EXCEPT ![op] = @ + 1]

Rank(s) == CASE s = "draft" -> 0 [] s = "sent" -> 1
             [] s = "evaluating" -> 2 [] s = "closed" -> 3

\* -------------------------------------------------------------- datastore
\* Proposals.findOne({ where: { rfp_id, vendor_id } }): no ORDER BY, so any
\* matching row may be the one returned.
ProposalsOf(v) == {p \in Pids : proposals[p].vendor = v}

\* Release every row lock held by call c (commit or rollback).
Unlock(c) ==
  /\ rfpLock' = IF rfpLock = c THEN 0 ELSE rfpLock
  /\ propLock' = [p \in Pids |-> IF propLock[p] = c THEN 0 ELSE propLock[p]]
  /\ mapLock' = [u \in Vendors |-> IF mapLock[u] = c THEN 0 ELSE mapLock[u]]

\* t.commit(): the staged writes of call c become the committed rows.
CommitProposals(c) ==
  [p \in Pids |->
     IF call[c].wNew[p] /= 0
       THEN [vendor |-> call[c].wNew[p], status |-> "pending",
             version |-> 1, email_id |-> call[c].wEmail[p]]
       ELSE [proposals[p] EXCEPT
               !.status = IF call[c].wStatus[p] /= "-"
                            THEN call[c].wStatus[p] ELSE @,
               !.email_id = IF call[c].wEmail[p] /= 0
                              THEN call[c].wEmail[p] ELSE @]]

CommitRfp(c) == IF call[c].wRfp /= "-" THEN call[c].wRfp ELSE rfpStatus

\* t.commit(): the line items staged by call c (ProposalItems.destroy and
\* bulkCreate, lines 183-205 and 223-240) replace those of the Offers it
\* created or updated; a payload without items inserts none (lines 188, 223).
CommitItems(c) ==
  [p \in Pids |->
     IF call[c].wNew[p] /= 0 \/ p \in call[c].wUpd
       THEN LET v == IF call[c].wNew[p] /= 0 THEN call[c].wNew[p]
                                            ELSE proposals[p].vendor
            IN IF <<c, v>> \in emptyPayload THEN 0 ELSE call[c].wEmail[p]
       ELSE proposalItems[p]]

Bump(f, S) == [u \in Vendors |-> IF u \in S THEN f[u] + 1 ELSE f[u]]

\* ------------------------------------------------------ awardProposalService
\* lines 320-333: open the transaction, load the Request, refuse a closed one.
AwardStart(c, v) ==
  /\ CanStart(c, "award")
  /\ ops' = Started("award")
  /\ IF rfpStatus = "closed"
       THEN call' = [call EXCEPT ![c] =
              [IdleCall EXCEPT !.op = "award", !.v = v,
                               !.result = "err_closed"]]
       ELSE call' = [call EXCEPT ![c] =
              [IdleCall EXCEPT !.op = "award", !.v = v, !.pc = "a_target",
                               !.rfp = rfpStatus]]
  /\ UNCHANGED <<rfpStatus, proposals, nextPid, rfpLock, propLock, mappings,
                 mapLock, nextToken, outbox, emails, awardNotifs,
                 rejectNotifs, recomputes, pollVars, auxVars>>

\* lines 335-348: load the target Offer, refuse a missing or awarded one.
AwardAlreadyAwarded(status) == status = "awarded"

AwardFindTarget(c) ==
  /\ call[c].pc = "a_target"
  /\ IF ProposalsOf(call[c].v) = {}
       THEN call' = [call EXCEPT ![c] = Finished(c, "err_not_found")]
       ELSE \E p \in ProposalsOf(call[c].v) :
              IF AwardAlreadyAwarded(proposals[p].status)
                THEN call' = [call EXCEPT ![c] = Finished(c, "err_awarded")]
                ELSE call' = [call EXCEPT ![c].pc = "a_sibs", ![c].tgt = p,
                                          ![c].tgtStatus = proposals[p].status]
  /\ UNCHANGED <<rfpStatus, proposals, nextPid, rfpLock, propLock, mappings,
                 mapLock, nextToken, outbox, emails, ops, awardNotifs,
                 rejectNotifs, recomputes, pollVars, auxVars>>

\* lines 350-372: the Offers of other vendors that are not yet rejected.
OtherProposalsToReject(v) ==
  {p \in Pids : /\ proposals[p].vendor /= 0
                /\ proposals[p].vendor /= v
                /\ proposals[p].status /= "rejected"}

AwardFindSiblings(c) ==
  /\ call[c].pc = "a_sibs"
  /\ call' = [call EXCEPT ![c].pc = "a_wtarget",
                          ![c].sibs = OtherProposalsToReject(call[c].v)]
  /\ UNCHANGED <<rfpStatus, proposals, nextPid, rfpLock, propLock, mappings,
                 mapLock, nextToken, outbox, emails, ops, awardNotifs,
                 rejectNotifs, recomputes, pollVars, auxVars>>

\* lines 374-378: targetProposal.update({ status: "awarded" }) in t.
AwardWriteTarget(c) ==
  /\ call[c].pc = "a_wtarget"
  /\ propLock[call[c].tgt] \in {0, c}
  /\ propLock' = [propLock EXCEPT ![call[c].tgt] = c]
  /\ call' = [call EXCEPT ![c].pc = "a_wsibs",
                          ![c].wStatus[call[c].tgt] = "awarded"]
  /\ UNCHANGED <<rfpStatus, proposals, nextPid, rfpLock, mappings, mapLock,
                 nextToken, outbox, emails, ops, awardNotifs, rejectNotifs,
                 recomputes, pollVars, auxVars>>

\* lines 380-389: Proposals.update({ status: "rejected" }, id IN (...)) in t.
AwardWriteSiblings(c) ==
  /\ call[c].pc = "a_wsibs"
  /\ \A p \in call[c].sibs : propLock[p] \in {0, c}
  /\ propLock' = [p \in Pids |-> IF p \in call[c].sibs THEN c ELSE propLock[p]]
  /\ call' = [call EXCEPT ![c].pc = "a_wrfp",
                          ![c].wStatus = [p \in Pids |->
                             IF p \in call[c].sibs THEN "rejected" ELSE @[p]]]
  /\ UNCHANGED <<rfpStatus, proposals, nextPid, rfpLock, mappings, mapLock,
                 nextToken, outbox, emails, ops, awardNotifs, rejectNotifs,
                 recomputes, pollVars, auxVars>>

\* lines 391-394: rfp.update({ status: "closed" }) in t.
AwardWriteRfp(c) ==
  /\ call[c].pc = "a_wrfp"
  /\ IF call[c].rfp /= "closed"
       THEN /\ rfpLock \in {0, c}
            /\ rfpLock' = c
            /\ call' = [call EXCEPT ![c].pc = "a_commit", ![c].wRfp = "closed"]
       ELSE /\ call' = [call EXCEPT ![c].pc = "a_commit"]
            /\ UNCHANGED rfpLock
  /\ UNCHANGED <<rfpStatus, proposals, nextPid, propLock, mappings, mapLock,
                 nextToken, outbox, emails, ops, awardNotifs, rejectNotifs,
                 recomputes, pollVars, auxVars>>

\* lines 365-372: the vendors of the Offers rejected in this call.
RejectedVendorIds(c) == {proposals[p].vendor : p \in call[c].sibs}

\* lines 396-439: commit, then dispatch the rating update of the winner and,
\* when some vendor was rejected in this call, sendProposalEmails.
AwardCommit(c) ==
  /\ call[c].pc = "a_commit"
  /\ proposals' = CommitProposals(c)
  /\ rfpStatus' = CommitRfp(c)
  /\ Unlock(c)
  /\ recomputes' = Bump(recomputes, {call[c].v})
  /\ IF RejectedVendorIds(c) /= {}
       THEN /\ awardNotifs' = Bump(awardNotifs, {call[c].v})
            /\ rejectNotifs' = Bump(rejectNotifs, RejectedVendorIds(c))
       ELSE UNCHANGED <<awardNotifs, rejectNotifs>>
  /\ bg' = [bg EXCEPT
        !.rating = Bump(@, {call[c].v}),
        !.awardEmails = IF RejectedVendorIds(c) /= {}
                          THEN Bump(@, {call[c].v}) ELSE @]
  /\ call' = [call EXCEPT ![c] = Finished(c, "ok")]
  /\ UNCHANGED <<nextPid, mappings, nextToken, outbox, emails, ops, pollVars,
                 runner, retry, deliv, budget, route,
                 proposalItems, lateVars>>

\* The calls holding a row lock that the next write of award call c needs
\* (lines 375-378, 381-389, 392-394).
AwardWaitsFor(c) ==
  CASE call[c].pc = "a_wtarget" -> {propLock[call[c].tgt]} \ {0, c}
    [] call[c].pc = "a_wsibs" -> {propLock[p] : p \in call[c].sibs} \ {0, c}
    [] call[c].pc = "a_wrfp" ->
         IF call[c].rfp /= "closed" THEN {rfpLock} \ {0, c} ELSE {}
    [] OTHER -> {}

\* lines 440-444: two awards wait for each other's row lock and the
\* datastore aborts the statement of one of them: the catch rolls the
\* transaction back and rethrows.
AwardDeadlockAbort(c) ==
  /\ \E d \in AwardWaitsFor(c) : c \in AwardWaitsFor(d)
  /\ Unlock(c)
  /\ call' = [call EXCEPT ![c] = Finished(c, "err_thrown")]
  /\ UNCHANGED <<rfpStatus, proposals, nextPid, mappings, nextToken, outbox,
                 emails, ops, awardNotifs, rejectNotifs, recomputes, pollVars,
                 auxVars>>

\* ----------------------------------------------------- rejectProposalService
\* The guard of lines 468-470 left out: no status is refused.
RejectRefusesAwardedOff(status) == FALSE

\* lines 468-470: the guard against rejecting an awarded Offer.
RejectRefusesAwarded(status) == status = "awarded"

\* lines 459-470: load the Offer (no transaction), refuse a missing or
\* awarded one.
RejectStart(c, v) ==
  /\ CanStart(c, "reject")
  /\ ops' = Started("reject")
  /\ IF ProposalsOf(v) = {}
       THEN call' = [call EXCEPT ![c] =
              [IdleCall EXCEPT !.op = "reject", !.v = v,
                               !.result = "err_not_found"]]
       ELSE \E p \in ProposalsOf(v) :
              IF RejectRefusesAwarded(proposals[p].status)
                THEN call' = [call EXCEPT ![c] =
                       [IdleCall EXCEPT !.op = "reject", !.v = v,
                                        !.result = "err_awarded"]]
                ELSE call' = [call EXCEPT ![c] =
                       [IdleCall EXCEPT !.op = "reject", !.v = v, !.tgt = p,
                                        !.tgtStatus = proposals[p].status,
                                        !.pc = "r_write"]]
  /\ UNCHANGED <<rfpStatus, proposals, nextPid, rfpLock, propLock, mappings,
                 mapLock, nextToken, outbox, emails, awardNotifs,
                 rejectNotifs, recomputes, pollVars, auxVars>>

\* lines 472-511: after the vendor and the Request are loaded,
\* proposal.update({ status: "rejected" }) outside any
\* transaction (Sequelize issues no UPDATE when the loaded instance already
\* holds the value), then the rating update and the rejection email are
\* dispatched.
RejectWrite(c) ==
  /\ call[c].pc = "r_write"
  /\ IF call[c].tgtStatus /= "rejected"
       THEN /\ propLock[call[c].tgt] = 0
            /\ proposals' = [proposals EXCEPT ![call[c].tgt].status = "rejected"]
       ELSE UNCHANGED proposals
  /\ recomputes' = Bump(recomputes, {call[c].v})
  /\ rejectNotifs' = Bump(rejectNotifs, {call[c].v})
  /\ bg' = [bg EXCEPT !.rating = Bump(@, {call[c].v}),
                      !.rejectEmail = Bump(@, {call[c].v})]
  /\ call' = [call EXCEPT ![c] = Finished(c, "ok")]
  /\ UNCHANGED <<rfpStatus, nextPid, rfpLock, propLock, mappings, mapLock,
                 nextToken, outbox, emails, ops, awardNotifs, pollVars,
                 runner, retry, deliv, budget, route,
                 proposalItems, lateVars>>

\* ----------------------------------------------------- parseProposalsService
InboundOf(v) ==
  {i \in 1..Len(emails) :
     emails[i].direction = "inbound" /\ emails[i].vendor = v}

Max(S) == CHOOSE x \in S : \A y \in S : y <= x

\* lines 55-62, 94-101: the inbound emails of vendor v that the loop can end
\* with: the loop keeps an email unless a later one of the list has a
\* greater created_at, and the list is ordered by created_at, rows of equal
\* created_at in the order the datastore happens to return them.
BestEmails(v) ==
  {i \in InboundOf(v) :
     \A j \in InboundOf(v) : emails[j].created_at <= emails[i].created_at}

\* bestEmailByVendorId as the loop can leave it (0: the vendor sent none).
BestPicks ==
  {b \in [Vendors -> 0..Len(emails)] :
     \A v \in Vendors : IF InboundOf(v) = {} THEN b[v] = 0
                                             ELSE b[v] \in BestEmails(v)}

\* lines 49-53: load the Request, outside any transaction.
ParseStart(c) ==
  /\ CanStart(c, "parse")
  /\ ops' = Started("parse")
  /\ call' = [call EXCEPT ![c] =
                [IdleCall EXCEPT !.op = "parse", !.pc = "p_emails",
                                 !.rfp = rfpStatus]]
  /\ UNCHANGED <<rfpStatus, proposals, nextPid, rfpLock, propLock, mappings,
                 mapLock, nextToken, outbox, emails, awardNotifs,
                 rejectNotifs, recomputes, pollVars, auxVars>>

\* lines 55-130: load the inbound emails and their vendors, keep the best
\* email of each vendor and run the extraction on it; any extraction may
\* fail, and a vendor whose extraction fails is left out of
\* parsedByVendorId.
ParseExtract(c) ==
  /\ call[c].pc = "p_emails"
  /\ IF \A v \in Vendors : InboundOf(v) = {}
       THEN call' = [call EXCEPT ![c] = Finished(c, "err_no_emails")]
       ELSE \E b \in BestPicks :
            \E S \in SUBSET {v \in Vendors : b[v] /= 0} :
              IF S = {}
                THEN call' = [call EXCEPT ![c] =
                                Finished(c, "err_none_parsed")]
                ELSE call' = [call EXCEPT
                                ![c].pc = "p_find", ![c].parsed = S,
                                ![c].best = [v \in Vendors |->
                                   IF v \in S THEN b[v] ELSE 0]]
  /\ UNCHANGED <<rfpStatus, proposals, nextPid, rfpLock, propLock, mappings,
                 mapLock, nextToken, outbox, emails, ops, awardNotifs,
                 rejectNotifs, recomputes, pollVars, auxVars>>

\* The outcomes of parseProposalWithGroq for one reply: it throws, or
\* normalizeProposalOutput (groqClient.js lines 147-179) returns a payload
\* whose items list is empty, or one with items.
Extractions == {"throw", "empty", "items"}

\* lines 55-130 with the three outcomes told apart: a reply whose extraction
\* throws is left out of parsedByVendorId (lines 119-125); a payload is
\* truthy whatever its items (line 113), so it is put in.
ParseExtractPayloads(c) ==
  /\ call[c].pc = "p_emails"
  /\ IF \A v \in Vendors : InboundOf(v) = {}
       THEN /\ call' = [call EXCEPT ![c] = Finished(c, "err_no_emails")]
            /\ UNCHANGED emptyPayload
       ELSE \E b \in BestPicks :
            \E x \in [{v \in Vendors : b[v] /= 0} -> Extractions] :
              LET S == {v \in DOMAIN x : x[v] /= "throw"}
              IN /\ call' = IF S = {}
                   THEN [call EXCEPT ![c] = Finished(c, "err_none_parsed")]
                   ELSE [call EXCEPT
                           ![c].pc = "p_find", ![c].parsed = S,
                           ![c].best = [v \in Vendors |->
                              IF v \in S THEN b[v] ELSE 0]]
                 /\ emptyPayload' =
                      {e \in emptyPayload : e[1] /= c}
                        \cup {<<c, v>> : v \in {u \in S : x[u] = "empty"}}
  /\ UNCHANGED <<rfpStatus, proposals, nextPid, rfpLock, propLock, mappings,
                 mapLock, nextToken, outbox, emails, ops, awardNotifs,
                 rejectNotifs, recomputes, pollVars, runner, retry, deliv,
                 budget, route, bg, proposalItems, vendorStats,
                 mappingRows>>

\* lines 132-148: open the transaction and load the existing Offers of the
\* parsed vendors; proposalByVendorId keeps one row per vendor.
ParseFindExisting(c) ==
  /\ call[c].pc = "p_find"
  /\ \E f \in [Vendors -> Pids \cup {0}] :
       /\ \A v \in Vendors :
            IF v \in call[c].parsed /\ ProposalsOf(v) /= {}
              THEN f[v] \in ProposalsOf(v)
              ELSE f[v] = 0
       /\ call' = [call EXCEPT ![c].pc = "p_loop", ![c].existing = f,
                               ![c].todo = call[c].parsed]
  /\ UNCHANGED <<rfpStatus, proposals, nextPid, rfpLock, propLock, mappings,
                 mapLock, nextToken, outbox, emails, ops, awardNotifs,
                 rejectNotifs, recomputes, pollVars, auxVars>>

\* lines 153-244: one iteration of the reconciliation loop: update the
\* existing Offer of the vendor in place (baseFields, lines 156-170, which
\* do not include version), or create a `pending` one at version 1.
ParseReconcile(c, v) ==
  /\ call[c].pc = "p_loop"
  /\ v \in call[c].todo
  /\ LET p == call[c].existing[v]
         rest == call[c].todo \ {v}
         pcNext == IF rest = {} THEN "p_rfp" ELSE "p_loop"
     IN IF p /= 0
          THEN /\ propLock[p] \in {0, c}
               /\ propLock' = [propLock EXCEPT ![p] = c]
               /\ call' = [call EXCEPT ![c].pc = pcNext, ![c].todo = rest,
                                       ![c].wEmail[p] = call[c].best[v],
                                       ![c].wUpd = @ \cup {p}]
               /\ UNCHANGED nextPid
          ELSE /\ nextPid <= MaxProposals
               /\ nextPid' = nextPid + 1
               /\ call' = [call EXCEPT ![c].pc = pcNext, ![c].todo = rest,
                                       ![c].wNew[nextPid] = v,
                                       ![c].wEmail[nextPid] = call[c].best[v]]
               /\ UNCHANGED propLock
  /\ UNCHANGED <<rfpStatus, proposals, rfpLock, mappings, mapLock, nextToken,
                 outbox, emails, ops, awardNotifs, rejectNotifs, recomputes, pollVars, auxVars>>

\* lines 246-251: rfp.update({ status: "evaluating" }) unless the Request
\* loaded at lines 49-53 was closed (no UPDATE is issued when the loaded
\* instance is already `evaluating`).
ParseWriteRfp(c) ==
  /\ call[c].pc = "p_rfp"
  /\ IF call[c].rfp \notin {"closed", "evaluating"}
       THEN /\ rfpLock \in {0, c}
            /\ rfpLock' = c
            /\ call' = [call EXCEPT ![c].pc = "p_commit",
                                    ![c].wRfp = "evaluating"]
       ELSE /\ call' = [call EXCEPT ![c].pc = "p_commit"]
            /\ UNCHANGED rfpLock
  /\ UNCHANGED <<rfpStatus, proposals, nextPid, propLock, mappings, mapLock,
                 nextToken, outbox, emails, ops, awardNotifs, rejectNotifs,
                 recomputes, pollVars, auxVars>>

\* line 253: t.commit().
ParseCommit(c) ==
  /\ call[c].pc = "p_commit"
  /\ proposals' = CommitProposals(c)
  /\ rfpStatus' = CommitRfp(c)
  /\ Unlock(c)
  /\ proposalItems' = CommitItems(c)
  /\ call' = [call EXCEPT ![c] = Finished(c, "ok")]
  /\ UNCHANGED <<nextPid, mappings, nextToken, outbox, emails, ops,
                 awardNotifs, rejectNotifs, recomputes, pollVars, runner,
                 retry, deliv, budget, route, bg, lateVars>>

\* t.rollback() leaves every staged write out: the tables are as committed.
\* Variant that keeps the staged Offer writes.
RolledBackKeepsWrites(c) == CommitProposals(c)

\* line 276: t.rollback(): the Offers after the rollback are the committed
\* ones.
RolledBack(c) == proposals

\* lines 133-253, 275-279: a datastore operation of the transaction throws
\* (the findAll, an update, create, destroy or bulkCreate of the loop, the
\* update of the Request, or the commit): the catch rolls back and rethrows.
ParseFails(c) ==
  /\ call[c].pc \in {"p_find", "p_loop", "p_rfp", "p_commit"}
  /\ proposals' = RolledBack(c)
  /\ Unlock(c)
  /\ call' = [call EXCEPT ![c] = Finished(c, "err_thrown")]
  /\ UNCHANGED <<rfpStatus, nextPid, mappings, nextToken, outbox, emails, ops,
                 awardNotifs, rejectNotifs, recomputes, pollVars, auxVars>>

\* ------------------------------------------------------------ sendRfpService
\* lines 799-821: open the transaction, load the Request FOR UPDATE (the
\* call waits while another transaction holds the row), refuse a closed one.
SendStart(c, vs) ==
  /\ CanStart(c, "send")
  /\ vs /= {}
  /\ rfpLock = 0
  /\ ops' = Started("send")
  /\ IF rfpStatus = "closed"
       THEN /\ call' = [call EXCEPT ![c] =
                 [IdleCall EXCEPT !.op = "send", !.vs = vs,
                                  !.result = "err_closed"]]
            /\ UNCHANGED rfpLock
       ELSE /\ call' = [call EXCEPT ![c] =
                 [IdleCall EXCEPT !.op = "send", !.vs = vs, !.pc = "s_maps",
                                  !.rfp = rfpStatus]]
            /\ rfpLock' = c
  /\ UNCHANGED <<rfpStatus, proposals, nextPid, propLock, mappings, mapLock,
                 nextToken, outbox, emails, awardNotifs, rejectNotifs,
                 recomputes, pollVars, auxVars>>

\* lines 825-869: load the items, the vendors and, FOR UPDATE, the existing
\* mappings of the named vendors.
SendLoadMappings(c) ==
  /\ call[c].pc = "s_maps"
  /\ \A v \in call[c].vs : mappings[v].status /= "none" => mapLock[v] \in {0, c}
  /\ mapLock' = [v \in Vendors |->
                   IF v \in call[c].vs /\ mappings[v].status /= "none"
                     THEN c ELSE mapLock[v]]
  /\ call' = [call EXCEPT ![c].pc = "s_loop", ![c].mapSeen = mappings,
                          ![c].todo = call[c].vs]
  /\ UNCHANGED <<rfpStatus, proposals, nextPid, rfpLock, propLock, mappings,
                 nextToken, outbox, emails, ops, awardNotifs, rejectNotifs,
                 recomputes, pollVars, auxVars>>

\* A token generated at every send, whatever the mapping holds.
ReplyTokenAlwaysNew(m) == nextToken

\* lines 915-920 (emailService.js lines 257-261): the reply token of the
\* mapping an invitation is prepared for: a new one if the mapping has none,
\* else the one it has.
ReplyTokenFor(m) == IF m.token = 0 THEN nextToken ELSE m.token

\* lines 874-957: one iteration of the vendor loop: create the mapping if
\* there is none, skip a mapping already `sent`, give the mapping a reply
\* token if it has none, queue the invitation and mark the mapping `pending`.
SendPrepare(c, v) ==
  /\ call[c].pc = "s_loop"
  /\ v \in call[c].todo
  /\ LET m == call[c].mapSeen[v]
         rest == call[c].todo \ {v}
         pcNext == IF rest = {} THEN "s_commit" ELSE "s_loop"
     IN IF m.status = "sent"
          THEN /\ call' = [call EXCEPT ![c].pc = pcNext, ![c].todo = rest]
               /\ UNCHANGED nextToken
          ELSE /\ call' = [call EXCEPT
                    ![c].pc = pcNext, ![c].todo = rest,
                    ![c].queue = @ \cup {v},
                    ![c].wMap[v] =
                       [status |-> "pending",
                        token |-> ReplyTokenFor(m),
                        last_email_id |-> 0]]
               /\ nextToken' = IF m.token = 0 THEN nextToken + 1 ELSE nextToken
  /\ UNCHANGED <<rfpStatus, proposals, nextPid, rfpLock, propLock, mappings,
                 mapLock, outbox, emails, ops, awardNotifs, rejectNotifs,
                 recomputes, pollVars, auxVars>>

\* The vendors for which call c created the mapping: those it queued and
\* whose mapping it did not find (proposalService.js lines 883-898,
\* emailService.js lines 244-255).
CreatedMappings(c) ==
  {v \in call[c].queue : call[c].mapSeen[v].status = "none"}

\* lines 967-992: a `draft` Request with at least one prepared invitation
\* becomes `sent`; commit; hand the queued invitations to
\* sendRfpInviteEmails.
SendCommit(c) ==
  /\ call[c].pc = "s_commit"
  /\ rfpStatus' = IF call[c].queue /= {} /\ call[c].rfp = "draft"
                    THEN "sent" ELSE rfpStatus
  /\ mappings' = [v \in Vendors |->
                    IF v \in call[c].queue THEN call[c].wMap[v]
                                           ELSE mappings[v]]
  /\ Unlock(c)
  /\ outbox' = Bump(outbox, call[c].queue)
  /\ mappingRows' = Bump(mappingRows, CreatedMappings(c))
  /\ call' = [call EXCEPT ![c] = Finished(c, "ok")]
  /\ UNCHANGED <<proposals, nextPid, nextToken, emails, ops, awardNotifs,
                 rejectNotifs, recomputes, pollVars, runner, retry, deliv,
                 budget, route, bg, proposalItems, emptyPayload, vendorStats>>

\* ------------------------------------------------------------ inbound mail
\* The poller's insert (pollInboxForRfpEmails, Emails.bulkCreate) as the
\* proposal services see it: an inbound Message of an invited vendor appears
\* in the emails table.
StoreInbound(v) ==
  /\ mappings[v].token /= 0
  /\ Cardinality({i \in 1..Len(emails) : emails[i].direction = "inbound"})
       < MaxEmails
  /\ emails' = Append(emails, [direction |-> "inbound", vendor |-> v,
                               message_id |-> 0, uid |-> 0,
                               created_at |-> Len(emails) + 1])
  /\ UNCHANGED <<rfpStatus, proposals, nextPid, rfpLock, propLock, mappings,
                 mapLock, nextToken, outbox, call, ops, awardNotifs,
                 rejectNotifs, recomputes, pollVars, auxVars>>

\* ------------------------------------------------------------------ INBOX
MaxMsgs == 3
MaxPolls == 2

\* The poll runs the model follows; runs 1 and 2 may overlap, a cycle
\* after cycle schedule uses run 1 only.
Pollers == {1, 2}

\* What a message that arrives in the INBOX can look like: the vendor whose
\* reply token its To address carries (0: the address has no +rfp_ segment),
\* the vendor whose address it was sent from (0: no From address), whether
\* its envelope carries a Message-ID, and whether its MIME source parses.
MsgShapes ==
  { [to |-> 1, from |-> 1, hasId |-> TRUE, mime |-> TRUE],
    [to |-> 1, from |-> 1, hasId |-> FALSE, mime |-> TRUE],
    [to |-> 1, from |-> 1, hasId |-> TRUE, mime |-> FALSE],
    [to |-> 1, from |-> 2, hasId |-> TRUE, mime |-> TRUE],
    [to |-> 0, from |-> 1, hasId |-> TRUE, mime |-> TRUE] }

offerRest == <<rfpStatus, proposals, nextPid, rfpLock, propLock, mappings,
               mapLock, nextToken, outbox, call, ops, awardNotifs,
               rejectNotifs, recomputes>>

\* The mail server appends a message; UIDs are handed out in increasing
\* order and the provider's Message-ID is unique to the message.  The reply
\* token of a vendor can only be in an address after sendRfpService has
\* issued it; an address written by anybody else can carry a token that no
\* mapping has (sh.to is no vendor, token -1).
Arrive(sh) ==
  /\ nextUid <= MaxMsgs
  /\ sh.to \in Vendors => mappings[sh.to].token /= 0
  /\ mailbox' = Append(mailbox,
        [uid |-> nextUid,
         message_id |-> IF sh.hasId THEN nextUid ELSE 0,
         tok |-> IF sh.to = 0 THEN 0
                 ELSE IF sh.to \in Vendors THEN mappings[sh.to].token
                                           ELSE -1,
         from |-> sh.from, mime |-> sh.mime])
  /\ nextUid' = nextUid + 1
  /\ UNCHANGED <<offerVars, auxVars, lastProcessedUid, poller, polls>>

\* A message is expunged; the sequence numbers of the later ones shift down,
\* their UIDs stay.
Expunge(i) ==
  /\ i \in 1..Len(mailbox)
  /\ mailbox' = [k \in 1..(Len(mailbox) - 1) |->
                   IF k < i THEN mailbox[k] ELSE mailbox[k + 1]]
  /\ UNCHANGED <<offerVars, auxVars, nextUid, lastProcessedUid, poller, polls>>

\* ------------------------------------------------------ pollInboxForRfpEmails
\* connected: the run's IMAP client is connected (line 110) and has not
\* logged out (line 332); locked: the run holds the mailbox lock (lines 112,
\* 329).
PollerIdle ==
  [pc |-> "idle", fromSeq |-> 0, messages |-> <<>>, maxUid |-> 0,
   existing |-> {}, toInsert |-> <<>>, idx |-> 0, connected |-> FALSE,
   locked |-> FALSE]

\* line 121.
FromSeq(watermark) == IF watermark + 1 > 1 THEN watermark + 1 ELSE 1

\* lines 125-133: client.fetch(`${fromSeq}:*`, { uid: true, ... }).  The
\* range is a range of sequence numbers (uid: true sits in the fetch query,
\* where it asks for the UID of each message; it is not the fetch option
\* that makes the range a UID range).  `*` is the last message, so a range
\* that starts beyond it yields, depending on the server, that last message
\* or nothing.
FetchRange(fromSeq) ==
  IF fromSeq <= Len(mailbox)
    THEN {SubSeq(mailbox, fromSeq, Len(mailbox))}
    ELSE IF Len(mailbox) = 0 THEN {<<>>}
                             ELSE {<<>>, <<mailbox[Len(mailbox)]>>}

\* lines 145-157: the largest UID among the watermark and the batch.
MaxUidOf(watermark, msgs) ==
  Max({watermark} \cup {msgs[i].uid : i \in 1..Len(msgs)})

\* The check of lines 237-241 left out: no message counts as stored.
AlreadyStoredNever(m, existing) == FALSE

\* lines 237-241: the message is already stored.
AlreadyStored(m, existing) == m.message_id /= 0 /\ m.message_id \in existing

\* Every vendor taken for the owner of the token, whatever the token is.
MappedVendorsAny(m, maps) == Vendors

\* lines 243-257: the vendors whose mapping carries the token of the
\* message.
MappedVendors(m, maps) == {v \in Vendors : maps[v].token = m.tok}

\* Addresses are numbers: a is an address written in lower case, a + 10 is
\* the same address written with capitals (0: no address).
\* String.prototype.toLowerCase (lines 173, 260).
ToLower(a) == IF a > 10 THEN a - 10 ELSE a

\* vendors.email as stored: vendor 1's is stored with capitals.
VendorEmail(v) == IF v = 1 THEN 11 ELSE v

\* line 173: envelope.from[0].address lowercased, null when there is none.
FromAddr(m) == IF m.from = 0 THEN 0 ELSE ToLower(m.from)

\* lines 259-264: the sender is present and is not the vendor.
SenderMismatch(m, v) ==
  /\ FromAddr(m) /= 0
  /\ VendorEmail(v) /= 0
  /\ FromAddr(m) /= ToLower(VendorEmail(v))

\* lines 226-302: the message passes every check of the loop.
Insertable(m, maps, existing) ==
  /\ m.tok /= 0
  /\ ~AlreadyStored(m, existing)
  /\ \E v \in MappedVendors(m, maps) : ~SenderMismatch(m, v)
  /\ m.mime

\* lines 288-298: the row inserted for a message (uid is bookkeeping of the
\* model: the mailbox message the row was made from, and with it the order
\* of receipt, received_at).  created_at is given at the insert.
EmailRow(m, maps) ==
  [direction |-> "inbound",
   vendor |-> CHOOSE v \in MappedVendors(m, maps) : TRUE,
   message_id |-> m.message_id, uid |-> m.uid, created_at |-> 0]

EmailsToInsert(msgs, maps, existing) ==
  LET Keep(m) == Insertable(m, maps, existing)
      kept == SelectSeq(msgs, Keep)
  IN [i \in 1..Len(kept) |-> EmailRow(kept[i], maps)]

\* lines 110-122: connect, take the mailbox lock; an empty INBOX resets the
\* watermark and ends the run, otherwise the fetch range is fixed.  The
\* `return` of line 117 runs the finally of lines 328-330 and leaves the
\* function: the lock is released, client.logout() of line 332 is not
\* reached.
PollBegin(p) ==
  /\ poller[p].pc = "idle"
  /\ IF Len(mailbox) = 0
       THEN /\ lastProcessedUid' = 0
            /\ poller' = [poller EXCEPT ![p] =
                 [PollerIdle EXCEPT !.connected = TRUE]]
       ELSE /\ poller' = [poller EXCEPT ![p] =
                 [PollerIdle EXCEPT !.pc = "fetch",
                                    !.fromSeq = FromSeq(lastProcessedUid),
                                    !.connected = TRUE, !.locked = TRUE]]
            /\ UNCHANGED lastProcessedUid
  /\ UNCHANGED <<offerVars, auxVars, mailbox, nextUid>>

\* One of the runs of pollInboxForRfpEmails that the model counts.
PollStart(p) ==
  /\ polls < MaxPolls
  /\ polls' = polls + 1
  /\ PollBegin(p)

\* lines 124-157: fetch the range; no message ends the run, with the
\* `return` of line 137: the lock is released, logout is not reached.
PollFetch(p) ==
  /\ poller[p].pc = "fetch"
  /\ \E msgs \in FetchRange(poller[p].fromSeq) :
       IF Len(msgs) = 0
         THEN poller' = [poller EXCEPT ![p] =
                [PollerIdle EXCEPT !.connected = TRUE]]
         ELSE poller' = [poller EXCEPT
                ![p].pc = "existing", ![p].messages = msgs,
                ![p].maxUid = MaxUidOf(lastProcessedUid, msgs)]
  /\ UNCHANGED <<offerVars, auxVars, mailbox, nextUid, lastProcessedUid, polls>>

\* lines 182-189: the Message-IDs of the batch that are already stored.
ExistingSet(msgs) ==
  ({msgs[i].message_id : i \in 1..Len(msgs)} \ {0})
    \cap {emails[i].message_id : i \in 1..Len(emails)}

PollQueryExisting(p) ==
  /\ poller[p].pc = "existing"
  /\ poller' = [poller EXCEPT ![p].pc = "resolve",
                              ![p].existing = ExistingSet(poller[p].messages)]
  /\ UNCHANGED <<offerVars, auxVars, mailbox, nextUid, lastProcessedUid, polls>>

\* lines 191-302: load the mappings, vendors and Requests of the tokens and
\* build emailsToInsert; an empty list ends the run (lines 304, 328-334).
PollResolve(p) ==
  /\ poller[p].pc = "resolve"
  /\ LET rows == EmailsToInsert(poller[p].messages, mappings,
                                poller[p].existing)
     IN IF Len(rows) = 0
          THEN poller' = [poller EXCEPT ![p] = PollerIdle]
          ELSE poller' = [poller EXCEPT ![p].pc = "insert",
                                        ![p].toInsert = rows]
  /\ UNCHANGED <<offerVars, auxVars, mailbox, nextUid, lastProcessedUid, polls>>

\* part_000 lines 148-152: created_at defaults to the time at which the row
\* is built.  The rows of one bulkCreate are built one after the other in
\* one synchronous loop: they get the same millisecond (tied), or
\* increasing ones.  Times are numbered by the position of the row.
Stamped(rows, tied) ==
  [k \in 1..Len(rows) |->
     [rows[k] EXCEPT !.created_at = Len(emails) + (IF tied THEN 1 ELSE k)]]

\* lines 305-312: Emails.bulkCreate succeeds; the watermark is advanced.
PollBulkCreate(p) ==
  /\ poller[p].pc = "insert"
  /\ \E tied \in BOOLEAN :
       emails' = emails \o Stamped(poller[p].toInsert, tied)
  /\ lastProcessedUid' = poller[p].maxUid
  /\ poller' = [poller EXCEPT ![p] = PollerIdle]
  /\ UNCHANGED <<offerRest, auxVars, mailbox, nextUid, polls>>

\* lines 313-314: Emails.bulkCreate throws.
PollBulkCreateFails(p) ==
  /\ poller[p].pc = "insert"
  /\ poller' = [poller EXCEPT ![p].pc = "fallback", ![p].idx = 1]
  /\ UNCHANGED <<offerVars, auxVars, mailbox, nextUid, lastProcessedUid, polls>>

\* lines 315-325: Emails.create of one row of the batch, which may throw;
\* after the last row the watermark is advanced.
PollCreateOne(p, ok) ==
  /\ poller[p].pc = "fallback"
  /\ emails' = IF ok THEN emails \o Stamped(<<poller[p].toInsert[poller[p].idx]>>,
                                              TRUE)
                     ELSE emails
  /\ IF poller[p].idx = Len(poller[p].toInsert)
       THEN /\ lastProcessedUid' = poller[p].maxUid
            /\ poller' = [poller EXCEPT ![p] = PollerIdle]
       ELSE /\ poller' = [poller EXCEPT ![p].idx = @ + 1]
            /\ UNCHANGED lastProcessedUid
  /\ UNCHANGED <<offerRest, auxVars, mailbox, nextUid, polls>>

\* lines 347-350: resetLastProcessedUid().
ResetLastProcessedUid ==
  /\ lastProcessedUid /= 0
  /\ lastProcessedUid' = 0
  /\ UNCHANGED <<offerVars, auxVars, mailbox, nextUid, poller, polls>>

\* --------------------------------------------------------- processConcurrency
MaxItems == 4
MaxConcurrency == 3

\* What the handler does for an item: it resolves, or it rejects with an
\* Error (every handler of the repository throws the Error of its failed
\* send, part_005 lines 360, 394, 469).
Outcomes == {"ok", "throw"}

ItemLists == UNION {[1..n -> Outcomes] : n \in 0..MaxItems}

Workers == 1..MaxConcurrency

RunnerIdle ==
  [pc |-> "idle", items |-> <<>>, concurrency |-> 0, index |-> 0,
   completed |-> 0, failed |-> 0,
   cur |-> [w \in Workers |-> 0], settled |-> {}, taken |-> <<>>,
   result |-> [completed |-> 0, failed |-> 0, total |-> 0]]

Min(a, b) == IF a < b THEN a ELSE b

\* One worker for every item, whatever the concurrency.
WorkerCountAll(concurrency, n) == n

\* line 321.
WorkerCount(concurrency, n) == Min(concurrency, n)

\* A worker that takes the index after the next one.
TakeNextSkipping(r, w) ==
  [r EXCEPT !.index = @ + 2,
            !.cur[w] = IF r.index + 2 <= Len(r.items) THEN r.index + 2 ELSE 0,
            !.taken = IF r.index + 2 <= Len(r.items)
                        THEN Append(@, r.index + 2) ELSE @]

\* lines 300-303: a worker takes the next index; at or beyond the end of
\* the items it leaves its loop (cur 0).  taken lists the items in the order
\* in which the handler was called for them.
TakeNext(r, w) ==
  [r EXCEPT !.index = @ + 1,
            !.cur[w] = IF r.index + 1 <= Len(r.items) THEN r.index + 1 ELSE 0,
            !.taken = IF r.index + 1 <= Len(r.items)
                        THEN Append(@, r.index + 1) ELSE @]

\* A rejection counted as a completion.
CountSettledAllCompleted(r, outcome) == [r EXCEPT !.completed = @ + 1]

\* lines 304-317: the handler resolved (completed++) or threw (failed++, the
\* error is logged and not rethrown).
CountSettled(r, outcome) ==
  IF outcome = "ok" THEN [r EXCEPT !.completed = @ + 1]
                    ELSE [r EXCEPT !.failed = @ + 1]

\* lines 291-327: the call starts min(concurrency, items.length) workers, and
\* each of them runs up to its first await, that is, takes an item and calls
\* the handler for it.
RunnerStart(items, concurrency) ==
  /\ runner.pc = "idle"
  /\ LET n == WorkerCount(concurrency, Len(items))
     IN runner' = [RunnerIdle EXCEPT
                     !.pc = "running", !.items = items,
                     !.concurrency = concurrency, !.index = n,
                     !.taken = [i \in 1..n |-> i],
                     !.cur = [w \in Workers |-> IF w <= n THEN w ELSE 0]]
  /\ UNCHANGED <<offerVars, pollVars, retry, deliv, budget, extVars>>

\* lines 305-318: the handler of worker w settles; the worker counts it and
\* takes the next item.
HandlerSettles(w) ==
  /\ runner.pc = "running"
  /\ runner.cur[w] /= 0
  /\ LET i == runner.cur[w]
         counted == CountSettled(runner, runner.items[i])
     IN runner' = TakeNext([counted EXCEPT !.settled = @ \cup {i}], w)
  /\ UNCHANGED <<offerVars, pollVars, retry, deliv, budget, extVars>>

\* lines 329-334: every worker has left its loop; the call returns.
RunnerReturn ==
  /\ runner.pc = "running"
  /\ \A w \in Workers : runner.cur[w] = 0
  /\ runner' = [runner EXCEPT
                  !.pc = "done",
                  !.result = [completed |-> runner.completed,
                              failed |-> runner.failed,
                              total |-> Len(runner.items)]]
  /\ UNCHANGED <<offerVars, pollVars, retry, deliv, budget, extVars>>

\* --------------------------------------------------------- sendEmailWithRetry
\* The largest maxRetries a caller passes; with 7 the loop reaches the
\* attempt at which the capped delay falls behind the doubling one.
MaxRetries == 7

\* line 28: maxRetries = 3.
DefaultMaxRetries == 3

\* What sendEmail can do: resolve (ok) or reject with an error, of which the
\* model keeps the response code (0: none) and whether the message names a
\* failed login.
SendOk == [ok |-> TRUE, rc |-> 0, login |-> FALSE]

SendErrors ==
  { [ok |-> FALSE, rc |-> 0, login |-> FALSE],
    [ok |-> FALSE, rc |-> 535, login |-> FALSE],
    [ok |-> FALSE, rc |-> 534, login |-> FALSE],
    [ok |-> FALSE, rc |-> 0, login |-> TRUE],
    [ok |-> FALSE, rc |-> 429, login |-> FALSE],
    [ok |-> FALSE, rc |-> 452, login |-> FALSE] }

SendOutcomes == {SendOk} \cup SendErrors

\* No error is an authentication error.
IsAuthErrorNever(err) == FALSE

\* lines 124-129 (classifyEmailError).
IsAuthError(err) == err.rc = 535 \/ err.rc = 534 \/ err.login

\* lines 131 (classifyEmailError).
IsRateLimitError(err) == err.rc = 429 \/ err.rc = 452

RetryIdle ==
  [pc |-> "idle", maxRetries |-> 0, attempt |-> 0, calls |-> <<>>,
   delayMs |-> 0, success |-> FALSE, attempts |-> 0]

\* lines 76-82: the delay before the next attempt, in milliseconds: 1000
\* doubled with every attempt, and for a rate-limit error twice that but
\* at most 30000.
BackoffDelay(attempt, rateLimited) ==
  LET delayMs == 2 ^ (attempt - 1) * 1000
  IN IF rateLimited THEN Min(30000, delayMs * 2) ELSE delayMs

\* lines 31-34: the loop is entered with attempt 1 when maxRetries allows.
RetryEnter(maxRetries) ==
  IF 1 <= maxRetries
    THEN [RetryIdle EXCEPT !.pc = "calling", !.maxRetries = maxRetries,
                           !.attempt = 1]
    ELSE [RetryIdle EXCEPT !.pc = "done", !.maxRetries = maxRetries,
                           !.attempts = maxRetries]

\* lines 35-103: one sendEmail call of the loop has settled with outcome o.
\* A success returns at once; an authentication error leaves the loop; any
\* other error backs off and retries while attempts remain.
AfterAttempt(r, o) ==
  LET called == [r EXCEPT !.calls = Append(@, o)]
  IN IF o.ok
       THEN [called EXCEPT !.pc = "done", !.success = TRUE,
                           !.attempts = r.attempt]
       ELSE IF IsAuthError(o) \/ r.attempt >= r.maxRetries
         THEN [called EXCEPT !.pc = "done", !.attempts = r.maxRetries]
         ELSE [called EXCEPT
                 !.pc = "backoff",
                 !.delayMs = BackoffDelay(r.attempt, IsRateLimitError(o))]

\* lines 86, 34: the backoff has elapsed; the next attempt begins.
AfterBackoff(r) == [r EXCEPT !.pc = "calling", !.attempt = @ + 1]

RetryStart(maxRetries) ==
  /\ retry.pc = "idle"
  /\ retry' = RetryEnter(maxRetries)
  /\ UNCHANGED <<offerVars, pollVars, runner, deliv, budget, extVars>>

TransportCall(o) ==
  /\ retry.pc = "calling"
  /\ retry' = AfterAttempt(retry, o)
  /\ UNCHANGED <<offerVars, pollVars, runner, deliv, budget, extVars>>

BackoffElapsed ==
  /\ retry.pc = "backoff"
  /\ retry' = AfterBackoff(retry)
  /\ UNCHANGED <<offerVars, pollVars, runner, deliv, budget, extVars>>

\* ------------------------------------------------- sendEmailAndUpdateStatus
\* The invitation deliveries in flight at the same time.
Deliveries == {1, 2}

DelivIdle ==
  [pc |-> "idle", v |-> 0, sent |-> FALSE, email |-> 0, success |-> FALSE,
   applied |-> FALSE]

\* What a finished delivery leaves behind: the mapping, whether the
\* transport send succeeded, what it returned and whether its update to
\* `sent` changed the row.
Delivered(d, success, applied) ==
  [DelivIdle EXCEPT !.pc = "done", !.v = deliv[d].v, !.sent = deliv[d].sent,
                    !.success = success, !.applied = applied]

\* lines 201, 246: invite_status IN ('pending', 'failed').
StillUnsent(status) == status \in {"pending", "failed"}

deliverRest == <<rfpStatus, proposals, nextPid, rfpLock, propLock, mapLock,
                 nextToken, call, ops, awardNotifs, rejectNotifs, recomputes,
                 pollVars, runner, retry, budget, extVars>>

\* part_005 lines 449-464 (sendRfpInviteEmails, dispatched by sendRfpService
\* after its commit): the handler is called for a queued invitation.
DeliverStart(d, v) ==
  /\ deliv[d].pc \in {"idle", "done"}
  /\ outbox[v] > 0
  /\ outbox' = [outbox EXCEPT ![v] = @ - 1]
  /\ deliv' = [deliv EXCEPT ![d] = [DelivIdle EXCEPT !.pc = "send", !.v = v]]
  /\ UNCHANGED <<mappings, emails, deliverRest>>

\* lines 176-190: sendEmailWithRetry settles, with success or without.
DeliverSend(d, ok) ==
  /\ deliv[d].pc = "send"
  /\ deliv' = [deliv EXCEPT ![d].sent = ok,
                            ![d].pc = IF ok THEN "record" ELSE "markfailed"]
  /\ UNCHANGED <<outbox, mappings, emails, deliverRest>>

\* lines 190-216: the send failed; the mapping is set `failed` unless it is
\* `sent` (the UPDATE waits for a transaction that holds the row and may
\* throw, which is logged), and the failure is returned.
DeliverMarkFailed(d, dbOk) ==
  /\ deliv[d].pc = "markfailed"
  /\ LET v == deliv[d].v
     IN /\ dbOk => mapLock[v] = 0
        /\ mappings' = IF dbOk /\ StillUnsent(mappings[v].status)
                         THEN [mappings EXCEPT ![v].status = "failed"]
                         ELSE mappings
  /\ deliv' = [deliv EXCEPT ![d] = Delivered(d, FALSE, FALSE)]
  /\ UNCHANGED <<outbox, emails, deliverRest>>

\* lines 218-230, 268-276: the send succeeded; the outbound Message is
\* created, or Emails.create throws and the failure is returned.
DeliverRecordEmail(d, dbOk) ==
  /\ deliv[d].pc = "record"
  /\ IF dbOk
       THEN /\ emails' = Append(emails,
                 [direction |-> "outbound", vendor |-> deliv[d].v,
                  message_id |-> 0, uid |-> 0,
                  created_at |-> Len(emails) + 1])
            /\ deliv' = [deliv EXCEPT ![d].pc = "marksent",
                                      ![d].email = Len(emails) + 1]
       ELSE /\ deliv' = [deliv EXCEPT ![d] = Delivered(d, FALSE, FALSE)]
            /\ UNCHANGED emails
  /\ UNCHANGED <<outbox, mappings, deliverRest>>

\* lines 235-276: the mapping is set `sent` if it is still `pending` or
\* `failed`; success is returned whether or not the row changed, a failure
\* when the UPDATE throws.
DeliverMarkSent(d, dbOk) ==
  /\ deliv[d].pc = "marksent"
  /\ LET v == deliv[d].v
         changes == dbOk /\ StillUnsent(mappings[v].status)
     IN /\ dbOk => mapLock[v] = 0
        /\ mappings' = IF changes
                         THEN [mappings EXCEPT ![v].status = "sent",
                                               ![v].last_email_id = deliv[d].email]
                         ELSE mappings
        /\ deliv' = [deliv EXCEPT ![d] = Delivered(d, dbOk, changes)]
  /\ UNCHANGED <<outbox, emails, deliverRest>>

\* The run starts each service as often as Budget says.
InitBudget == budget = Budget

\* ------------------------------------- sendRfpService of services/emailService.js
\* The sendRfpService that src/backend/src/services/emailService.js holds,
\* with its own sendSingleInvite; line numbers are those of that file.

\* lines 189-203: open the transaction, load the Request (no lock), refuse a
\* closed one.
LegacySendStart(c, vs) ==
  /\ CanStart(c, "send")
  /\ vs /= {}
  /\ ops' = Started("send")
  /\ call' = [call EXCEPT ![c] =
        IF rfpStatus = "closed"
          THEN [IdleCall EXCEPT !.op = "send", !.vs = vs,
                                !.result = "err_closed"]
          ELSE [IdleCall EXCEPT !.op = "send", !.vs = vs, !.pc = "l_maps",
                                !.rfp = rfpStatus]]
  /\ UNCHANGED <<rfpStatus, proposals, nextPid, rfpLock, propLock, mappings,
                 mapLock, nextToken, outbox, emails, awardNotifs,
                 rejectNotifs, recomputes, pollVars, auxVars>>

\* lines 205-236: load the items, the vendors and their existing mappings
\* (no lock).
LegacySendLoadMappings(c) ==
  /\ call[c].pc = "l_maps"
  /\ call' = [call EXCEPT ![c].pc = "l_loop", ![c].mapSeen = mappings,
                          ![c].todo = call[c].vs]
  /\ UNCHANGED <<rfpStatus, proposals, nextPid, rfpLock, propLock, mappings,
                 mapLock, nextToken, outbox, emails, ops, awardNotifs,
                 rejectNotifs, recomputes, pollVars, auxVars>>

\* lines 241-293: one iteration of the vendor loop: create the mapping if
\* there is none, give it a reply token if it has none, queue the invitation
\* and save the mapping as `pending` with no last email, whatever its status
\* was.  A save that changes the row takes its lock.
LegacySendPrepare(c, v) ==
  /\ call[c].pc = "l_loop"
  /\ v \in call[c].todo
  /\ LET m == call[c].mapSeen[v]
         rest == call[c].todo \ {v}
         w == [status |-> "pending",
               token |-> ReplyTokenFor(m),
               last_email_id |-> 0]
         writes == m.status /= "none" /\ w /= m
     IN /\ writes => mapLock[v] \in {0, c}
        /\ mapLock' = IF writes THEN [mapLock EXCEPT ![v] = c] ELSE mapLock
        /\ call' = [call EXCEPT
              ![c].pc = IF rest = {} THEN "l_commit" ELSE "l_loop",
              ![c].todo = rest, ![c].queue = @ \cup {v}, ![c].wMap[v] = w]
        /\ nextToken' = IF m.token = 0 THEN nextToken + 1 ELSE nextToken
  /\ UNCHANGED <<rfpStatus, proposals, nextPid, rfpLock, propLock, mappings,
                 outbox, emails, ops, awardNotifs, rejectNotifs, recomputes,
                 pollVars, auxVars>>

\* lines 295-316: a `draft` Request becomes `sent`; commit; hand the queued
\* invitations to sendSingleInvite.
LegacySendCommit(c) ==
  /\ call[c].pc = "l_commit"
  /\ rfpStatus' = IF call[c].queue /= {} /\ call[c].rfp = "draft"
                    THEN "sent" ELSE rfpStatus
  /\ mappings' = [v \in Vendors |->
                    IF v \in call[c].queue THEN call[c].wMap[v]
                                           ELSE mappings[v]]
  /\ Unlock(c)
  /\ outbox' = Bump(outbox, call[c].queue)
  /\ mappingRows' = Bump(mappingRows, CreatedMappings(c))
  /\ call' = [call EXCEPT ![c] = Finished(c, "ok")]
  /\ UNCHANGED <<proposals, nextPid, nextToken, emails, ops, awardNotifs,
                 rejectNotifs, recomputes, pollVars, runner, retry, deliv,
                 budget, route, bg, proposalItems, emptyPayload, vendorStats>>

\* lines 305-306: sendSingleInvite is called for a queued invitation.
SingleInviteStart(d, v) ==
  /\ deliv[d].pc \in {"idle", "done"}
  /\ outbox[v] > 0
  /\ outbox' = [outbox EXCEPT ![v] = @ - 1]
  /\ deliv' = [deliv EXCEPT ![d] = [DelivIdle EXCEPT !.pc = "l_send", !.v = v]]
  /\ UNCHANGED <<mappings, emails, deliverRest>>

\* lines 143-150, 173-174: the one sendEmail call settles.
SingleInviteSend(d, ok) ==
  /\ deliv[d].pc = "l_send"
  /\ deliv' = [deliv EXCEPT ![d].sent = ok,
                            ![d].pc = IF ok THEN "l_record" ELSE "l_failed"]
  /\ UNCHANGED <<outbox, mappings, emails, deliverRest>>

\* lines 152-162: the outbound Message is created, or Emails.create throws.
SingleInviteRecord(d, dbOk) ==
  /\ deliv[d].pc = "l_record"
  /\ IF dbOk
       THEN /\ emails' = Append(emails,
                 [direction |-> "outbound", vendor |-> deliv[d].v,
                  message_id |-> 0, uid |-> 0,
                  created_at |-> Len(emails) + 1])
            /\ deliv' = [deliv EXCEPT ![d].pc = "l_mark",
                                      ![d].email = Len(emails) + 1]
       ELSE /\ deliv' = [deliv EXCEPT ![d].pc = "l_failed"]
            /\ UNCHANGED emails
  /\ UNCHANGED <<outbox, mappings, deliverRest>>

\* lines 164-172: the mapping is set `sent`, whatever its status, or the
\* UPDATE throws.
SingleInviteMarkSent(d, dbOk) ==
  /\ deliv[d].pc = "l_mark"
  /\ LET v == deliv[d].v
     IN IF dbOk
          THEN /\ mapLock[v] = 0
               /\ mappings' = [mappings EXCEPT ![v].status = "sent",
                                 ![v].last_email_id = deliv[d].email]
               /\ deliv' = [deliv EXCEPT ![d] = Delivered(d, TRUE, TRUE)]
          ELSE /\ deliv' = [deliv EXCEPT ![d].pc = "l_failed"]
               /\ UNCHANGED mappings
  /\ UNCHANGED <<outbox, emails, deliverRest>>

\* lines 173-181: the mapping is set `failed`, whatever its status; an
\* UPDATE that throws ends the handler in processWithConcurrency's catch.
SingleInviteMarkFailed(d, dbOk) ==
  /\ deliv[d].pc = "l_failed"
  /\ LET v == deliv[d].v
     IN /\ dbOk => mapLock[v] = 0
        /\ mappings' = IF dbOk THEN [mappings EXCEPT ![v].status = "failed"]
                               ELSE mappings
  /\ deliv' = [deliv EXCEPT ![d] = Delivered(d, FALSE, FALSE)]
  /\ UNCHANGED <<outbox, emails, deliverRest>>

\* ------------------------------------------------ reply-address routing
\* generateReplyToken, buildRfpReplyTo and parseRfpPlusAddress of
\* utils/groqClient.js (the part headed src/utils/emailRouting.js).  A
\* string is the sequence of its characters.

\* the length of a reply token (12 in the source, line 421) and the longest
\* local part of a base address
TokenLen == 2
MaxLocal == 5

\* the characters generateReplyToken accepts (line 422), three of them
TokenChars == {"k", "K", "7"}

\* characters of the local part of a mailbox address
LocalChars == {"+", "r", "R", "f", "p", "_"}

\* the domain of the base address
Domains == {<<"d">>}

\* the sequences over S of length n
RECURSIVE SeqsOfLen(_, _)
SeqsOfLen(S, n) ==
  IF n = 0 THEN {<<>>}
  ELSE {Append(s, x) : s \in SeqsOfLen(S, n - 1), x \in S}

\* lines 421-433: the tokens generateReplyToken(TokenLen) can return
ReplyTokens == SeqsOfLen(TokenChars, TokenLen)

\* base addresses local@domain
BaseEmails ==
  {l \o <<"@">> \o d :
     l \in UNION {SeqsOfLen(LocalChars, n) : n \in 1..MaxLocal}, d \in Domains}

\* the positions of "@" in s
AtSigns(s) == {i \in 1..Len(s) : s[i] = "@"}

\* String.prototype.split("@"): part number k of s (<<>> if there is none)
SplitPart(s, k) ==
  LET cuts == AtSigns(s)
      bounds == [j \in 0..(Cardinality(cuts) + 1) |->
                   IF j = 0 THEN 0
                   ELSE IF j = Cardinality(cuts) + 1 THEN Len(s) + 1
                   ELSE CHOOSE i \in cuts :
                          Cardinality({x \in cuts : x <= i}) = j]
  IN IF k > Cardinality(cuts) + 1 THEN <<>>
     ELSE SubSeq(s, bounds[k - 1] + 1, bounds[k] - 1)

\* lines 439-449: local+rfp_<token>@domain; <<>> stands for the throw
buildRfpReplyTo(baseEmail, replyToken) ==
  LET local == SplitPart(baseEmail, 1)
      domain == SplitPart(baseEmail, 2)
  IN IF baseEmail = <<>> \/ replyToken = <<>> \/ local = <<>> \/ domain = <<>>
       THEN <<>>
       ELSE local \o <<"+", "r", "f", "p", "_">> \o replyToken
                  \o <<"@">> \o domain

\* the /i flag of the regular expression: a character without its case
FoldCase(ch) == IF ch = "R" THEN "r" ELSE ch

\* the end of the longest run of characters other than "@" that starts at i
RECURSIVE RunEnd(_, _)
RunEnd(s, i) ==
  IF i > Len(s) THEN Len(s)
  ELSE IF s[i] = "@" THEN i - 1
  ELSE RunEnd(s, i + 1)

\* /\+rfp_([^@]+)@/i matches at position i of s
RfpMatchesAt(s, i) ==
  /\ i + 5 <= Len(s)
  /\ s[i] = "+"
  /\ FoldCase(s[i + 1]) = "r"
  /\ s[i + 2] = "f"
  /\ s[i + 3] = "p"
  /\ s[i + 4] = "_"
  /\ s[i + 5] /= "@"
  /\ RunEnd(s, i + 5) < Len(s)

\* the leftmost position from i on that the expression matches at (0: none)
RECURSIVE RfpMatchFrom(_, _)
RfpMatchFrom(s, i) ==
  IF i > Len(s) THEN 0
  ELSE IF RfpMatchesAt(s, i) THEN i
  ELSE RfpMatchFrom(s, i + 1)

\* String.prototype.match: the leftmost position the expression matches at
\* (0: no match)
RfpFirstMatch(s) == RfpMatchFrom(s, 1)

\* lines 457-469: the captured token; <<>> stands for null
parseRfpPlusAddress(address) ==
  LET i == RfpFirstMatch(address)
  IN IF address = <<>> \/ i = 0 THEN <<>>
     ELSE SubSeq(address, i + 5, RunEnd(address, i + 5))

RouteIdle == [pc |-> "idle", token |-> <<>>, base |-> <<>>,
              address |-> <<>>, parsed |-> <<>>]

routeRest == <<offerVars, pollVars, runner, retry, deliv, budget, bg,
              proposalItems, lateVars>>

\* lines 421-433: generateReplyToken() returns a token
RouteGenerate(token) ==
  /\ route.pc = "idle"
  /\ route' = [RouteIdle EXCEPT !.pc = "token", !.token = token]
  /\ UNCHANGED routeRest

\* lines 439-449: buildRfpReplyTo({baseEmail, replyToken}) for some base
\* address
RouteBuild ==
  /\ route.pc = "token"
  /\ \E baseEmail \in BaseEmails :
       route' = [route EXCEPT !.pc = "built", !.base = baseEmail,
                   !.address = buildRfpReplyTo(baseEmail, route.token)]
  /\ UNCHANGED routeRest

\* lines 457-469: parseRfpPlusAddress(address)
RouteParse ==
  /\ route.pc = "built"
  /\ route' = [route EXCEPT !.pc = "parsed",
                 !.parsed = parseRfpPlusAddress(route.address)]
  /\ UNCHANGED routeRest

\* ------------------------------------------- callbacks scheduled after a commit
\* The setImmediate callbacks of awardProposalService (proposalService.js
\* lines 399-433) and rejectProposalService (lines 480-503): the rating
\* update of the vendor, sendProposalEmails after an award that rejected
\* some vendor, sendRejectionEmail after a reject.

Callbacks == {"rating", "awardEmails", "rejectEmail"}

\* no callback scheduled, none has failed, no error has left a callback
BgIdle == [rating |-> [v \in Vendors |-> 0],
           awardEmails |-> [v \in Vendors |-> 0],
           rejectEmail |-> [v \in Vendors |-> 0],
           failed |-> FALSE, escaped |-> FALSE]

\* a callback without its try/catch
CaughtNever(kind) == FALSE

\* lines 400-404, 412-430, 481-485, 491-501: the body of every callback is
\* inside try/catch, and the catch only logs
Caught(kind) == kind \in Callbacks

\* A scheduled callback runs to its end; its work succeeds or throws.
BgRun(kind, v, ok) ==
  /\ bg[kind][v] > 0
  /\ bg' = [bg EXCEPT ![kind][v] = @ - 1,
                      !.failed = @ \/ ~ok,
                      !.escaped = @ \/ (~ok /\ ~Caught(kind))]
  /\ UNCHANGED <<offerVars, pollVars, runner, retry, deliv, budget, route,
                 proposalItems, lateVars>>

\* lines 399-405 and 480-486: updateVendorOnAward / updateVendorOnReject
BgRating(v, ok) == BgRun("rating", v, ok)

\* lines 411-432: Vendors.findAll, then sendProposalEmails
BgAwardEmails(v, ok) == BgRun("awardEmails", v, ok)

\* lines 490-503: sendRejectionEmail
BgRejectEmail(v, ok) == BgRun("rejectEmail", v, ok)

\* ------------------------------------------------------ scores and ratings
\* clampScore of utils/groqClient.js, calculateVendorRating,
\* updateVendorOnAward and updateVendorOnReject of utils/errorUtils.js, for
\* one vendor.  A nullable number is the empty set or a singleton; a rating
\* is held in hundredths, as the DECIMAL(3,2) column of models/vendor.js
\* holds it.

\* the most Offers the vendor gets, and the update runs that may overlap
MaxHistory == 2
Jobs == {1, 2}

\* what the completion service may return as ai_score: nothing, a text that
\* is no number, or a number (a numeric text is coerced to its number)
RawScores == {[kind |-> "null", n |-> 0], [kind |-> "text", n |-> 0]}
               \cup {[kind |-> "number", n |-> n] :
                       n \in {0 - 20, 0, 40, 100, 180}}

\* what it may return as delivery_days
RawDays == {{}, {0}, {10}, {45}}

\* groqClient.js lines 83-87: coerceNumberOrNull
coerceNumberOrNull(raw) == IF raw.kind = "number" THEN {raw.n} ELSE {}

\* the clamp left out
clampScoreOff(raw) == coerceNumberOrNull(raw)

\* groqClient.js lines 113-117: clampScore
clampScore(raw) ==
  {IF n > 100 THEN 100 ELSE IF n < 0 THEN 0 ELSE n :
     n \in coerceNumberOrNull(raw)}

\* proposalService.js lines 160, 167: `value || null` keeps a number other
\* than 0
OrNull(x) == {n \in x : n /= 0}

\* the sum of f over the set S of indices
RECURSIVE SumOver(_, _)
SumOver(f, S) ==
  IF S = {} THEN 0
  ELSE LET i == CHOOSE j \in S : TRUE IN f[i] + SumOver(f, S \ {i})

\* Math.round(n / d) for n >= 0 and d > 0
RoundDiv(n, d) == (2 * n + d) \div (2 * d)

\* errorUtils.js lines 116-137: calculateVendorRating, in hundredths, of the
\* statistics errorUtils.js lines 152-191 (and 242-284) take from the
\* Offers: total and awarded Offers, the mean of the scores present, the
\* rounded percentage of the delivery times present that are at most 30
\* days.
RatingOf(hist) ==
  LET all == 1..Len(hist)
      total == Len(hist)
      won == Cardinality({i \in all : hist[i].status = "awarded"})
      scored == {i \in all : hist[i].score /= {}}
      scoreSum == SumOver([i \in all |->
                    IF i \in scored THEN CHOOSE n \in hist[i].score : TRUE
                                    ELSE 0], scored)
      timed == {i \in all : \E d \in hist[i].days : d > 0}
      onTime == {i \in timed : \E d \in hist[i].days : d <= 30}
      pct == IF timed = {} THEN 0
             ELSE RoundDiv(100 * Cardinality(onTime), Cardinality(timed))
      t == IF total > 0 THEN total ELSE 1
      k == IF scored /= {} THEN Cardinality(scored) ELSE 1
  IN RoundDiv(400 * won * k + 4 * scoreSum * t + 2 * pct * t * k, t * k)

StatsIdle == [hist |-> <<>>, rating |-> {},
              job |-> [j \in Jobs |-> [pc |-> "idle", newRating |-> 0]],
              dispatched |-> 0, failed |-> FALSE, fresh |-> TRUE]

statsRest == <<offerVars, pollVars, runner, retry, deliv, budget, route, bg,
               proposalItems, emptyPayload, mappingRows>>

\* proposalService.js lines 156-170, 210-221: a parse call creates an Offer
\* of the vendor with the clamped score and the delivery time extracted.
OfferStored(raw, days) ==
  /\ Len(vendorStats.hist) < MaxHistory
  /\ vendorStats' = [vendorStats EXCEPT
        !.hist = Append(@, [status |-> "pending",
                            score |-> OrNull(clampScore(raw)),
                            days |-> OrNull(days)]),
        !.fresh = FALSE]
  /\ UNCHANGED statsRest

\* proposalService.js lines 374-405 and 477-486: an award or a reject gives
\* a `pending` Offer of the vendor (the Offers of a vendor belong to
\* different Requests) its status and schedules updateVendorOnAward or
\* updateVendorOnReject.
OfferDecided(i, status, j) ==
  /\ i \in 1..Len(vendorStats.hist)
  /\ vendorStats.hist[i].status = "pending"
  /\ vendorStats.job[j].pc = "idle"
  /\ vendorStats' = [vendorStats EXCEPT
        !.hist[i].status = status,
        !.job[j].pc = "read",
        !.dispatched = 1,
        !.fresh = TRUE]
  /\ UNCHANGED statsRest

\* errorUtils.js lines 148-199 (238-292): the update run loads the Offers of
\* the vendor and computes the rating.
RatingRead(j) ==
  /\ vendorStats.job[j].pc = "read"
  /\ vendorStats' = [vendorStats EXCEPT
        !.job[j] = [pc |-> "write", newRating |-> RatingOf(vendorStats.hist)]]
  /\ UNCHANGED statsRest

\* errorUtils.js lines 201-210 (294-303): vendor.update stores the rating,
\* or throws.
RatingWrite(j, dbOk) ==
  /\ vendorStats.job[j].pc = "write"
  /\ vendorStats' = [vendorStats EXCEPT
        !.rating = IF dbOk THEN {vendorStats.job[j].newRating} ELSE @,
        !.failed = @ \/ ~dbOk,
        !.job[j] = [pc |-> "idle", newRating |-> 0]]
  /\ UNCHANGED statsRest

\* ------------------------------------------------------------ specification
InitOffers ==
  /\ rfpStatus = "draft"
  /\ proposals = [p \in Pids |-> NoRow]
  /\ nextPid = 1
  /\ rfpLock = 0
  /\ propLock = [p \in Pids |-> 0]
  /\ mappings = [v \in Vendors |-> NoMapping]
  /\ mapLock = [v \in Vendors |-> 0]
  /\ nextToken = 1
  /\ outbox = [v \in Vendors |-> 0]
  /\ emails = <<>>
  /\ call = [c \in Calls |-> IdleCall]
  /\ ops = [op \in {"award", "reject", "parse", "send"} |-> 0]
  /\ awardNotifs = [v \in Vendors |-> 0]
  /\ rejectNotifs = [v \in Vendors |-> 0]
  /\ recomputes = [v \in Vendors |-> 0]

InitPoll ==
  /\ mailbox = <<>>
  /\ nextUid = 1
  /\ lastProcessedUid = 0
  /\ poller = [p \in Pollers |-> PollerIdle]
  /\ polls = 0

InitAux ==
  /\ runner = RunnerIdle
  /\ retry = RetryIdle
  /\ deliv = [d \in Deliveries |-> DelivIdle]
  /\ route = RouteIdle
  /\ bg = BgIdle
  /\ proposalItems = [p \in Pids |-> 0]
  /\ emptyPayload = {}
  /\ vendorStats = StatsIdle
  /\ mappingRows = [v \in Vendors |-> 0]

Init == InitOffers /\ InitPoll /\ InitAux /\ InitBudget

Next ==
  \/ \E c \in Calls, v \in Vendors : AwardStart(c, v)
  \/ \E c \in Calls : AwardFindTarget(c)
  \/ \E c \in Calls : AwardFindSiblings(c)
  \/ \E c \in Calls : AwardWriteTarget(c)
  \/ \E c \in Calls : AwardWriteSiblings(c)
  \/ \E c \in Calls : AwardWriteRfp(c)
  \/ \E c \in Calls : AwardCommit(c)
  \/ \E c \in Calls, v \in Vendors : RejectStart(c, v)
  \/ \E c \in Calls : RejectWrite(c)
  \/ \E c \in Calls : ParseStart(c)
  \/ \E c \in Calls : ParseExtract(c)
  \/ \E c \in Calls : ParseFindExisting(c)
  \/ \E c \in Calls, v \in Vendors : ParseReconcile(c, v)
  \/ \E c \in Calls : ParseWriteRfp(c)
  \/ \E c \in Calls : ParseCommit(c)
  \/ \E c \in Calls, vs \in SUBSET Vendors : SendStart(c, vs)
  \/ \E c \in Calls : SendLoadMappings(c)
  \/ \E c \in Calls, v \in Vendors : SendPrepare(c, v)
  \/ \E c \in Calls : SendCommit(c)
  \/ \E v \in Vendors : StoreInbound(v)

Spec == Init /\ [][Next]_vars

\* The poller run cycle after cycle against the INBOX, with the invitation of
\* every vendor that gives the reply tokens their mappings.
NextPoll ==
  \/ SendStart(1, Vendors)
  \/ SendLoadMappings(1)
  \/ \E v \in Vendors : SendPrepare(1, v)
  \/ SendCommit(1)
  \/ \E sh \in MsgShapes : Arrive(sh)
  \/ \E i \in 1..MaxMsgs : Expunge(i)
  \/ PollStart(1)
  \/ PollFetch(1)
  \/ PollQueryExisting(1)
  \/ PollResolve(1)
  \/ PollBulkCreate(1)
  \/ PollBulkCreateFails(1)
  \/ \E ok \in BOOLEAN : PollCreateOne(1, ok)
  \/ ResetLastProcessedUid

SpecPoll == Init /\ [][NextPoll]_vars

\* ------------------------------------------------- the poller and the sender
\* Replies that all carry vendor 1's reply token and differ in their From
\* address: the vendor's address in lower case, the same address with
\* capitals, another vendor's address, and no From address at all.
SenderShapes ==
  { [to |-> 1, from |-> 1, hasId |-> TRUE, mime |-> TRUE],
    [to |-> 1, from |-> 11, hasId |-> TRUE, mime |-> TRUE],
    [to |-> 1, from |-> 2, hasId |-> TRUE, mime |-> TRUE],
    [to |-> 1, from |-> 0, hasId |-> TRUE, mime |-> TRUE] }

\* The poller run cycle after cycle on an INBOX that keeps its messages.
NextSender ==
  \/ SendStart(1, Vendors)
  \/ SendLoadMappings(1)
  \/ \E v \in Vendors : SendPrepare(1, v)
  \/ SendCommit(1)
  \/ \E sh \in SenderShapes : Arrive(sh)
  \/ PollStart(1)
  \/ PollFetch(1)
  \/ PollQueryExisting(1)
  \/ PollResolve(1)
  \/ PollBulkCreate(1)
  \/ PollBulkCreateFails(1)
  \/ \E ok \in BOOLEAN : PollCreateOne(1, ok)

SpecSender == Init /\ [][NextSender]_vars

\* One processConcurrency call, for every list of items and concurrency.
NextRunner ==
  \/ \E items \in ItemLists, k \in 1..MaxConcurrency : RunnerStart(items, k)
  \/ \E w \in Workers : HandlerSettles(w)
  \/ RunnerReturn

SpecRunner == Init /\ [][NextRunner]_vars

\* One sendEmailWithRetry call, for every maxRetries and every outcome of
\* every transport call.
NextRetry ==
  \/ \E m \in 0..MaxRetries : RetryStart(m)
  \/ \E o \in SendOutcomes : TransportCall(o)
  \/ BackoffElapsed

SpecRetry == Init /\ [][NextRetry]_vars

\* sendRfpService called one time more than in Spec, so that an invitation
\* can be sent again, and the deliveries its calls dispatch.
DeliverBudget == [award |-> 0, reject |-> 0, parse |-> 0, send |-> MaxSends + 1]

InitDeliver == InitOffers /\ InitPoll /\ InitAux /\ budget = DeliverBudget

NextDeliver ==
  \/ \E vs \in SUBSET Vendors : SendStart(1, vs)
  \/ SendLoadMappings(1)
  \/ \E v \in Vendors : SendPrepare(1, v)
  \/ SendCommit(1)
  \/ \E d \in Deliveries, v \in Vendors : DeliverStart(d, v)
  \/ \E d \in Deliveries, ok \in BOOLEAN : DeliverSend(d, ok)
  \/ \E d \in Deliveries, dbOk \in BOOLEAN : DeliverMarkFailed(d, dbOk)
  \/ \E d \in Deliveries, dbOk \in BOOLEAN : DeliverRecordEmail(d, dbOk)
  \/ \E d \in Deliveries, dbOk \in BOOLEAN : DeliverMarkSent(d, dbOk)

SpecDeliver == InitDeliver /\ [][NextDeliver]_vars

\* The sendRfpService of services/emailService.js called twice, and the
\* sendSingleInvite runs its calls dispatch.
NextLegacy ==
  \/ \E vs \in SUBSET Vendors : LegacySendStart(1, vs)
  \/ LegacySendLoadMappings(1)
  \/ \E v \in Vendors : LegacySendPrepare(1, v)
  \/ LegacySendCommit(1)
  \/ \E d \in Deliveries, v \in Vendors : SingleInviteStart(d, v)
  \/ \E d \in Deliveries, ok \in BOOLEAN : SingleInviteSend(d, ok)
  \/ \E d \in Deliveries, dbOk \in BOOLEAN : SingleInviteRecord(d, dbOk)
  \/ \E d \in Deliveries, dbOk \in BOOLEAN : SingleInviteMarkSent(d, dbOk)
  \/ \E d \in Deliveries, dbOk \in BOOLEAN : SingleInviteMarkFailed(d, dbOk)

SpecLegacy == InitDeliver /\ [][NextLegacy]_vars

\* A reply token is generated, encoded into a reply address and decoded.
NextRoute ==
  \/ \E token \in ReplyTokens : RouteGenerate(token)
  \/ RouteBuild
  \/ RouteParse

SpecRoute == Init /\ [][NextRoute]_vars

\* Invitations, replies, one parse, awards and rejects, and the callbacks
\* the awards and rejects schedule.
NextBg ==
  \/ SendStart(1, Vendors)
  \/ SendLoadMappings(1)
  \/ \E v \in Vendors : SendPrepare(1, v)
  \/ SendCommit(1)
  \/ \E v \in Vendors : StoreInbound(v)
  \/ ParseStart(1)
  \/ ParseExtract(1)
  \/ ParseFindExisting(1)
  \/ \E v \in Vendors : ParseReconcile(1, v)
  \/ ParseWriteRfp(1)
  \/ ParseCommit(1)
  \/ \E v \in Vendors : AwardStart(1, v)
  \/ AwardFindTarget(1)
  \/ AwardFindSiblings(1)
  \/ AwardWriteTarget(1)
  \/ AwardWriteSiblings(1)
  \/ AwardWriteRfp(1)
  \/ AwardCommit(1)
  \/ \E v \in Vendors : RejectStart(2, v)
  \/ RejectWrite(2)
  \/ \E v \in Vendors, ok \in BOOLEAN : BgRating(v, ok)
  \/ \E v \in Vendors, ok \in BOOLEAN : BgAwardEmails(v, ok)
  \/ \E v \in Vendors, ok \in BOOLEAN : BgRejectEmail(v, ok)

SpecBg == Init /\ [][NextBg]_vars

\* Invitations, replies and parse calls whose transaction may fail.
NextTx ==
  \/ SendStart(1, Vendors)
  \/ SendLoadMappings(1)
  \/ \E v \in Vendors : SendPrepare(1, v)
  \/ SendCommit(1)
  \/ \E v \in Vendors : StoreInbound(v)
  \/ \E c \in Calls : ParseStart(c)
  \/ \E c \in Calls : ParseExtract(c)
  \/ \E c \in Calls : ParseFindExisting(c)
  \/ \E c \in Calls, v \in Vendors : ParseReconcile(c, v)
  \/ \E c \in Calls : ParseWriteRfp(c)
  \/ \E c \in Calls : ParseCommit(c)
  \/ \E c \in Calls : ParseFails(c)

SpecTx == Init /\ [][NextTx]_vars

\* Invitations, replies and parse calls whose extractions throw, return a
\* payload without items or return one with items.
NextExtract ==
  \/ SendStart(1, Vendors)
  \/ SendLoadMappings(1)
  \/ \E v \in Vendors : SendPrepare(1, v)
  \/ SendCommit(1)
  \/ \E v \in Vendors : StoreInbound(v)
  \/ ParseStart(1)
  \/ ParseExtractPayloads(1)
  \/ ParseFindExisting(1)
  \/ \E v \in Vendors : ParseReconcile(1, v)
  \/ ParseWriteRfp(1)
  \/ ParseCommit(1)

SpecExtract == Init /\ [][NextExtract]_vars

\* The Offers of one vendor are created and decided, and its rating is
\* recomputed.
NextRating ==
  \/ \E raw \in RawScores, days \in RawDays : OfferStored(raw, days)
  \/ \E i \in 1..MaxHistory, status \in {"awarded", "rejected"}, j \in Jobs :
       OfferDecided(i, status, j)
  \/ \E j \in Jobs : RatingRead(j)
  \/ \E j \in Jobs, dbOk \in BOOLEAN : RatingWrite(j, dbOk)

SpecRating == Init /\ [][NextRating]_vars

\* Two calls of the sendRfpService of services/emailService.js that may
\* overlap.
NextLegacyPair ==
  \/ \E c \in Calls, vs \in SUBSET Vendors : LegacySendStart(c, vs)
  \/ \E c \in Calls : LegacySendLoadMappings(c)
  \/ \E c \in Calls, v \in Vendors : LegacySendPrepare(c, v)
  \/ \E c \in Calls : LegacySendCommit(c)

SpecLegacyPair == InitDeliver /\ [][NextLegacyPair]_vars

\* awardProposalService called twice, in two calls that may overlap, for a
\* Request whose Offers one parse created.
AwardPairBudget == [award |-> MaxAwards + 1, reject |-> 0, parse |-> 1,
                    send |-> MaxSends]

InitAwardPair == InitOffers /\ InitPoll /\ InitAux /\ budget = AwardPairBudget

NextAwardPair ==
  \/ SendStart(1, Vendors)
  \/ SendLoadMappings(1)
  \/ \E v \in Vendors : SendPrepare(1, v)
  \/ SendCommit(1)
  \/ \E v \in Vendors : StoreInbound(v)
  \/ ParseStart(1)
  \/ ParseExtract(1)
  \/ ParseFindExisting(1)
  \/ \E v \in Vendors : ParseReconcile(1, v)
  \/ ParseWriteRfp(1)
  \/ ParseCommit(1)
  \/ \E c \in Calls, v \in Vendors : AwardStart(c, v)
  \/ \E c \in Calls : AwardFindTarget(c)
  \/ \E c \in Calls : AwardFindSiblings(c)
  \/ \E c \in Calls : AwardWriteTarget(c)
  \/ \E c \in Calls : AwardWriteSiblings(c)
  \/ \E c \in Calls : AwardWriteRfp(c)
  \/ \E c \in Calls : AwardCommit(c)
  \/ \E c \in Calls : AwardDeadlockAbort(c)

SpecAwardPair == InitAwardPair /\ [][NextAwardPair]_vars

\* Messages that differ in the token of their To address: the token of
\* vendor 1, the token of vendor 2, no token, and a token no mapping has.
ResolveShapes ==
  { [to |-> 1, from |-> 1, hasId |-> TRUE, mime |-> TRUE],
    [to |-> 2, from |-> 2, hasId |-> TRUE, mime |-> TRUE],
    [to |-> 0, from |-> 1, hasId |-> TRUE, mime |-> TRUE],
    [to |-> 3, from |-> 1, hasId |-> TRUE, mime |-> TRUE] }

\* The poller run cycle after cycle on an INBOX that keeps its messages.
NextResolve ==
  \/ SendStart(1, Vendors)
  \/ SendLoadMappings(1)
  \/ \E v \in Vendors : SendPrepare(1, v)
  \/ SendCommit(1)
  \/ \E sh \in ResolveShapes : Arrive(sh)
  \/ PollStart(1)
  \/ PollFetch(1)
  \/ PollQueryExisting(1)
  \/ PollResolve(1)
  \/ PollBulkCreate(1)
  \/ PollBulkCreateFails(1)
  \/ \E ok \in BOOLEAN : PollCreateOne(1, ok)

SpecResolve == Init /\ [][NextResolve]_vars

\* pollInboxForRfpEmails called again and again, without end, on an INBOX
\* that receives messages and loses some; every insert succeeds.
NextPollLive ==
  \/ SendStart(1, Vendors)
  \/ SendLoadMappings(1)
  \/ \E v \in Vendors : SendPrepare(1, v)
  \/ SendCommit(1)
  \/ \E sh \in ResolveShapes : Arrive(sh)
  \/ \E i \in 1..MaxMsgs : Expunge(i)
  \/ PollBegin(1) /\ UNCHANGED polls
  \/ PollFetch(1)
  \/ PollQueryExisting(1)
  \/ PollResolve(1)
  \/ PollBulkCreate(1)

\* The caller keeps polling and every step of a run is taken in the end.
PollFairness ==
  /\ WF_vars(PollBegin(1) /\ UNCHANGED polls)
  /\ WF_vars(PollFetch(1))
  /\ WF_vars(PollQueryExisting(1))
  /\ WF_vars(PollResolve(1))
  /\ WF_vars(PollBulkCreate(1))

SpecPollLive == Init /\ [][NextPollLive]_vars /\ PollFairness

\* Two runs of pollInboxForRfpEmails that may overlap, on an INBOX that
\* keeps its messages; every insert succeeds.
NextPollPair ==
  \/ SendStart(1, Vendors)
  \/ SendLoadMappings(1)
  \/ \E v \in Vendors : SendPrepare(1, v)
  \/ SendCommit(1)
  \/ \E sh \in ResolveShapes : Arrive(sh)
  \/ \E p \in Pollers : PollStart(p)
  \/ \E p \in Pollers : PollFetch(p)
  \/ \E p \in Pollers : PollQueryExisting(p)
  \/ \E p \in Pollers : PollResolve(p)
  \/ \E p \in Pollers : PollBulkCreate(p)

SpecPollPair == Init /\ [][NextPollPair]_vars

\* Replies are polled into the emails table and parseProposalsService
\* chooses the replies it runs the extraction on.
NextIntake ==
  \/ SendStart(1, Vendors)
  \/ SendLoadMappings(1)
  \/ \E v \in Vendors : SendPrepare(1, v)
  \/ SendCommit(1)
  \/ \E sh \in ResolveShapes : Arrive(sh)
  \/ PollStart(1)
  \/ PollFetch(1)
  \/ PollQueryExisting(1)
  \/ PollResolve(1)
  \/ PollBulkCreate(1)
  \/ ParseStart(1)
  \/ ParseExtract(1)

SpecIntake == Init /\ [][NextIntake]_vars

\* ------------------------------------------------------------------ claims
Existing == {p \in Pids : proposals[p].vendor /= 0}

Awarded == {p \in Pids : proposals[p].status = "awarded"}

\* The step in which call c commits its award.
AwardCommits(c) == call[c].pc = "a_commit" /\ call'[c].pc = "idle"

\* C1: an award of Offer A commits, in one step, A `awarded`, every other
\* Offer of the Request that was not `rejected` as `rejected`, and the
\* Request `closed`; and no committed state has an `awarded` Offer while the
\* Request is not `closed`.
C1_AwardCascadeAtomic ==
  /\ [][\A c \in Calls :
          AwardCommits(c) =>
            /\ proposals'[call[c].tgt].status = "awarded"
            /\ \A p \in Existing \ {call[c].tgt} :
                 proposals[p].status /= "rejected"
                   => proposals'[p].status = "rejected"
            /\ rfpStatus' = "closed"]_vars
  /\ [](Awarded /= {} => rfpStatus = "closed")

\* C2: the Request is `closed` if and only if exactly one of its Offers is
\* `awarded`.
C2_ClosedIffOneAwarded ==
  (rfpStatus = "closed") <=> (Cardinality(Awarded) = 1)

\* C3: `rejected` and `awarded` are terminal: a `rejected` Offer stays
\* `rejected` and an `awarded` Offer stays `awarded`.
C3_TerminalStatuses ==
  [][\A p \in Pids :
       /\ proposals[p].status = "rejected"
            => proposals'[p].status = "rejected"
       /\ proposals[p].status = "awarded"
            => proposals'[p].status = "awarded"]_vars

\* C4: a reject call that finds the vendor's Offer `awarded` returns the
\* error at once, changes no Offer and dispatches neither a rejection
\* notification nor a rating recompute.
C4_RejectAwardedRefused ==
  [][\A c \in Calls, v \in Vendors :
       (/\ RejectStart(c, v)
        /\ ProposalsOf(v) /= {}
        /\ \A p \in ProposalsOf(v) : proposals[p].status = "awarded")
         => /\ call'[c].result = "err_awarded"
            /\ call'[c].pc = "idle"
            /\ proposals' = proposals
            /\ rejectNotifs' = rejectNotifs
            /\ recomputes' = recomputes]_vars

\* A reject call has been refused on an Offer that is `awarded`.
C4_Witness ==
  \E c \in Calls :
    /\ call[c].op = "reject"
    /\ call[c].result = "err_awarded"
    /\ \E p \in ProposalsOf(call[c].v) : proposals[p].status = "awarded"

\* C5: the status of the Request never moves back along
\* draft -> sent -> evaluating -> closed.
C5_RfpStatusMonotonic == [][Rank(rfpStatus') >= Rank(rfpStatus)]_vars

\* C6: a vendor never has two Offers that are not `rejected`.
C6_OneLiveOfferPerVendor ==
  \A v \in Vendors :
    Cardinality({p \in ProposalsOf(v) : proposals[p].status /= "rejected"}) <= 1

\* C7: a created Offer has version 1, a reconciliation update raises the
\* version of the Offer by one, and a version never decreases.
C7_VersionIncrements ==
  [][/\ \A c \in Calls :
          (call[c].pc = "p_commit" /\ call'[c].pc = "idle") =>
            \A p \in Pids :
              /\ call[c].wNew[p] /= 0 => proposals'[p].version = 1
              /\ p \in call[c].wUpd
                   => proposals'[p].version = proposals[p].version + 1
     /\ \A p \in Pids : proposals'[p].version >= proposals[p].version]_vars

\* C8: no Message-ID is stored twice in the emails table, however often the
\* message is fetched again.
C8_NoDuplicateMessageId ==
  \A i, j \in 1..Len(emails) :
    (emails[i].message_id /= 0 /\ emails[i].message_id = emails[j].message_id)
      => i = j

\* A later poll fetched a message that is already stored together with a
\* new one, and kept only the new one.
C8_Witness ==
  /\ polls >= 2
  /\ poller[1].pc = "insert"
  /\ poller[1].existing /= {}
  /\ \E i \in 1..Len(emails) : emails[i].message_id \in poller[1].existing
  /\ \A k \in 1..Len(poller[1].toInsert) :
       poller[1].toInsert[k].message_id \notin poller[1].existing

\* The messages of the INBOX whose UID is at least u.
FromUid(u) == LET New(m) == m.uid >= u IN SelectSeq(mailbox, New)

\* C9: a poll of an empty INBOX sets the watermark to 0, and a poll with
\* watermark w fetches exactly the messages above w.
C9_FetchAboveWatermark ==
  [][/\ (poller[1].pc = "idle" /\ polls' = polls + 1 /\ Len(mailbox) = 0)
          => lastProcessedUid' = 0
     /\ (poller[1].pc = "fetch" /\ poller'[1].pc /= "fetch")
          => poller'[1].messages = FromUid(poller[1].fromSeq)]_vars

\* C10: when a poll has ended, every message of the INBOX at or below the
\* watermark that passes the resolution checks is stored.
C10_WatermarkBehindStored ==
  poller[1].pc = "idle" =>
    \A i \in 1..Len(mailbox) :
      (mailbox[i].uid <= lastProcessedUid
         /\ Insertable(mailbox[i], mappings, {}))
        => \E j \in 1..Len(emails) : emails[j].uid = mailbox[i].uid

\* C11: every inbound Message the poller stored for a vendor came from a
\* message whose From address is present and equals, case aside, the
\* address of that vendor.
C11_StoredSenderMatches ==
  \A j \in 1..Len(emails) :
    emails[j].uid /= 0 =>
      \E i \in 1..Len(mailbox) :
        /\ mailbox[i].uid = emails[j].uid
        /\ mailbox[i].from /= 0
        /\ ToLower(mailbox[i].from) = ToLower(VendorEmail(emails[j].vendor))

\* The items of the call whose handler throws.
Throwing == {i \in 1..Len(runner.items) : runner.items[i] = "throw"}

\* C12: when processConcurrency has returned, the handler has settled for
\* every item, total is the number of items, failed the number of items
\* whose handler threw, and completed the rest.
C12_RunnerJoinsAndCounts ==
  runner.pc = "done" =>
    /\ runner.settled = 1..Len(runner.items)
    /\ runner.result.total = Len(runner.items)
    /\ runner.result.failed = Cardinality(Throwing)
    /\ runner.result.completed = runner.result.total - runner.result.failed

\* A call with more items than workers, one of them throwing, has returned.
C12_Witness ==
  /\ runner.pc = "done"
  /\ Cardinality(Throwing) = 1
  /\ Len(runner.items) = MaxItems
  /\ runner.result.failed = 1

\* A transport call that failed on the credentials: response code 535 or
\* 534, or a message that names a failed login.
AuthFailure(o) == ~o.ok /\ (o.rc \in {534, 535} \/ o.login)

\* C17: sendEmailWithRetry makes at most maxRetries transport calls, and
\* every call but the last one failed with an error that is not an
\* authentication error.
C17_RetryStopsOnSuccessOrAuth ==
  /\ Len(retry.calls) <= retry.maxRetries
  /\ \A i \in 1..(Len(retry.calls) - 1) :
       ~retry.calls[i].ok /\ ~AuthFailure(retry.calls[i])

\* A call has ended on an authentication error with attempts to spare.
C17_Witness ==
  /\ retry.pc = "done"
  /\ Len(retry.calls) = 2
  /\ retry.maxRetries = DefaultMaxRetries
  /\ ~retry.calls[1].ok
  /\ AuthFailure(retry.calls[2])

\* C18: of the finished deliveries of one mapping at most one changed the
\* mapping to `sent`, at most one returned success, and a delivery that
\* returned success is one that changed the mapping.
C18_OneDeliverySucceeds ==
  /\ \A d1, d2 \in Deliveries :
       (/\ d1 /= d2
        /\ deliv[d1].pc = "done" /\ deliv[d2].pc = "done"
        /\ deliv[d1].v = deliv[d2].v)
         => /\ ~(deliv[d1].applied /\ deliv[d2].applied)
            /\ ~(deliv[d1].success /\ deliv[d2].success)
  /\ \A d \in Deliveries :
       (deliv[d].pc = "done" /\ deliv[d].success) => deliv[d].applied

\* The step in which delivery d finishes.
DeliveryFinishes(d) == deliv[d].pc \notin {"idle", "done"} /\ deliv'[d].pc = "done"

\* C19: when a delivery finishes, its mapping is not `pending`: it is `sent`
\* if the transport send succeeded, and `failed` (or `sent` by another
\* delivery) if it did not.
C19_FinishedDeliveryLeavesPending ==
  [][\A d \in Deliveries :
       DeliveryFinishes(d) =>
         LET status == mappings'[deliv[d].v].status
         IN /\ status /= "pending"
            /\ deliv'[d].sent => status = "sent"
            /\ ~deliv'[d].sent => status \in {"failed", "sent"}]_vars

\* The step in which call c commits a sendRfpService transaction.
SendCommits(c) == call[c].pc \in {"s_commit", "l_commit"} /\ call'[c].pc = "idle"

\* C13: a sendRfpService call that names a vendor whose mapping it loaded
\* as `sent` queues no invitation for that vendor and leaves the mapping `sent` with
\* its last email.
C13_ResendSentIsNoOp ==
  [][\A c \in Calls :
       SendCommits(c) =>
         \A v \in call[c].vs :
           call[c].mapSeen[v].status = "sent" =>
             /\ outbox'[v] = outbox[v]
             /\ mappings'[v].status = "sent"
             /\ mappings'[v].last_email_id = mappings[v].last_email_id]_vars

\* C14: for every generated token and every base address local@domain,
\* parseRfpPlusAddress(buildRfpReplyTo({baseEmail, replyToken})) is that
\* token, letter case included.
C14_RoundTrip == route.pc = "parsed" => route.parsed = route.token

\* The vendors whose Offer becomes `rejected` in this step.
RejectedInStep ==
  {proposals[p].vendor :
     p \in {q \in Pids : /\ proposals[q].vendor /= 0
                         /\ proposals[q].status /= "rejected"
                         /\ proposals'[q].status = "rejected"}}

\* C15: the commit of an award dispatches exactly one award notification,
\* to the winner, and exactly one rejection notification to each vendor
\* rejected in that call, also when no vendor is rejected.
C15_AwardDispatchesNotifications ==
  [][\A c \in Calls :
       AwardCommits(c) =>
         /\ \A u \in Vendors :
              awardNotifs'[u] =
                awardNotifs[u] + (IF u = call[c].v THEN 1 ELSE 0)
         /\ \A u \in Vendors :
              rejectNotifs'[u] =
                rejectNotifs[u] + (IF u \in RejectedInStep THEN 1 ELSE 0)]_vars

\* The step in which a callback scheduled after a commit runs.
CallbackRuns ==
  \E kind \in {"rating", "awardEmails", "rejectEmail"}, v \in Vendors :
    bg'[kind][v] < bg[kind][v]

\* The step in which call c makes its reject durable.
RejectCommits(c) == call[c].pc = "r_write" /\ call'[c].pc = "idle"

\* C16: an award or reject returns its success result at the commit of the
\* status change; a callback that runs afterwards, failing or not, changes
\* no result and no Offer or Request status, and no error leaves it.
C16_PostCommitFailuresContained ==
  /\ [][\A c \in Calls :
          (AwardCommits(c) \/ RejectCommits(c)) => call'[c].result = "ok"]_vars
  /\ [][CallbackRuns =>
          /\ call' = call
          /\ proposals' = proposals
          /\ rfpStatus' = rfpStatus]_vars
  /\ [](~bg.escaped)

\* An award that sent notifications and a reject have returned success, all
\* their callbacks have run and one of them has failed.
C16_Witness ==
  /\ bg.failed
  /\ \A kind \in {"rating", "awardEmails", "rejectEmail"}, v \in Vendors :
       bg[kind][v] = 0
  /\ \E v \in Vendors : awardNotifs[v] > 0
  /\ call[1].op = "award" /\ call[1].result = "ok"
  /\ call[2].op = "reject" /\ call[2].result = "ok"

\* The step in which the reconciliation transaction of parse call c ends
\* without its commit.
ParseAborts(c) ==
  /\ call[c].op = "parse"
  /\ call[c].pc \in {"p_find", "p_loop", "p_rfp", "p_commit"}
  /\ call'[c].pc = "idle"
  /\ call'[c].result /= "ok"

\* C20: when a datastore operation fails inside the reconciliation
\* transaction of a parse call, no Offer creation or update, no line-item
\* replacement and no Request status change of that call is committed, and
\* the call raises the error.
C20_ParseFailureCommitsNothing ==
  [][\A c \in Calls :
       ParseAborts(c) =>
         /\ proposals' = proposals
         /\ proposalItems' = proposalItems
         /\ rfpStatus' = rfpStatus
         /\ call'[c].result = "err_thrown"]_vars

\* A parse call that had staged an Offer update, a new Offer and the status
\* change of the Request has failed and raised.
C20_Witness ==
  \E c \in Calls :
    /\ call[c].op = "parse"
    /\ call[c].result = "err_thrown"
    /\ \E p \in Pids : proposals[p].vendor /= 0
    /\ nextPid > 1 + Cardinality({p \in Pids : proposals[p].vendor /= 0})

\* C21: once an Offer is `awarded`, no later step, a parse call included,
\* changes the reply its fields were extracted from, its version or its
\* line items.
C21_AwardedOfferFrozen ==
  [][\A p \in Pids :
       proposals[p].status = "awarded" =>
         /\ proposals'[p].email_id = proposals[p].email_id
         /\ proposals'[p].version = proposals[p].version
         /\ proposalItems'[p] = proposalItems[p]]_vars

\* The step in which parse call c commits its reconciliation.
ParseCommits(c) ==
  call[c].pc = "p_commit" /\ call'[c].pc = "idle" /\ call'[c].result = "ok"

\* C22: a parse call creates or updates no Offer and no line item of a
\* vendor whose extraction failed or whose payload has no items, and it
\* leaves every vendor whose extraction succeeded with an Offer that holds
\* the reply extracted.
C22_SkipsFailedAndEmpty ==
  [][\A c \in Calls :
       ParseCommits(c) =>
         \A v \in Vendors :
           IF v \in call[c].parsed /\ <<c, v>> \notin emptyPayload
             THEN \E p \in Pids : /\ proposals'[p].vendor = v
                                  /\ proposals'[p].email_id = call[c].best[v]
             ELSE \A p \in Pids :
                    (proposals[p].vendor = v \/ proposals'[p].vendor = v)
                      => /\ proposals'[p] = proposals[p]
                         /\ proposalItems'[p] = proposalItems[p]]_vars

\* C24: the stored rating of a vendor is absent or within 0..10 (0..1000
\* hundredths) and the stored score of each Offer is absent or within
\* 0..100, whatever the completion service returned.
C24_RatingAndScoreInRange ==
  /\ \A r \in vendorStats.rating : 0 <= r /\ r <= 1000
  /\ \A i \in 1..Len(vendorStats.hist) :
       \A n \in vendorStats.hist[i].score : 0 <= n /\ n <= 100

\* The vendor has all its Offers, one of them with the highest score and
\* one awarded, and its rating has been recomputed and stored.
C24_Witness ==
  /\ vendorStats.rating /= {}
  /\ Len(vendorStats.hist) = MaxHistory
  /\ \E i \in 1..Len(vendorStats.hist) : vendorStats.hist[i].score = {100}
  /\ \E i \in 1..Len(vendorStats.hist) : vendorStats.hist[i].status = "awarded"
  /\ \A j \in Jobs : vendorStats.job[j].pc = "idle"

\* C25: once every rating update scheduled for the vendor has finished
\* without an error, and no Offer was created since the last one was
\* scheduled, the stored rating is the formula applied to the vendor's
\* Offers.
C25_RatingConverges ==
  (/\ vendorStats.dispatched > 0
   /\ \A j \in Jobs : vendorStats.job[j].pc = "idle"
   /\ ~vendorStats.failed
   /\ vendorStats.fresh)
    => vendorStats.rating = {RatingOf(vendorStats.hist)}

\* C26: the commit of an award dispatches a rating recomputation for the
\* winner and for every vendor whose Offer that award rejected.
C26_AwardRecomputesAll ==
  [][\A c \in Calls :
       AwardCommits(c) =>
         \A u \in {call[c].v} \cup RejectedInStep :
           recomputes'[u] > recomputes[u]]_vars

\* C27: no vendor has more than one mapping row for the Request.
C27_OneMappingPerVendor == \A v \in Vendors : mappingRows[v] <= 1

\* The vendors an invitation of which is queued for, or is with, the
\* transport.
InTransport ==
  {v \in Vendors : outbox[v] > 0
                   \/ \E d \in Deliveries :
                        deliv[d].v = v /\ deliv[d].pc \notin {"idle", "done"}}

\* C28: a vendor whose invitation is queued for or handed to the transport
\* has a token in the committed mapping, and a committed token of a mapping
\* is never replaced by another.
C28_TokenCommittedAndStable ==
  /\ [](\A v \in InTransport : mappings[v].token /= 0)
  /\ [][\A v \in Vendors :
          mappings[v].token /= 0 => mappings'[v].token = mappings[v].token]_vars

\* Two calls of sendRfpService have committed an invitation for the same
\* vendor: the second found the token of the first, and both invitations are
\* queued for the transport.
C28_Witness ==
  \E v \in Vendors :
    /\ call[1].pc = "idle" /\ call[1].result = "ok"
    /\ outbox[v] = 2
    /\ mappings[v].token /= 0

\* C29: two awardProposalService calls for different vendors never both
\* return an awarded result.
C29_OneAwardCommits ==
  \A c, d \in Calls :
    (/\ c /= d
     /\ call[c].op = "award" /\ call[d].op = "award"
     /\ call[c].pc = "idle" /\ call[d].pc = "idle"
     /\ call[c].v /= call[d].v)
    => ~(call[c].result = "ok" /\ call[d].result = "ok")

\* C30: the write of a reject call never turns into `rejected` an Offer that
\* an award has committed as `awarded` since the reject call checked it.
C30_RejectNeverUndoesAward ==
  [][\A c \in Calls :
       (/\ RejectCommits(c)
        /\ call[c].tgt /= 0
        /\ proposals[call[c].tgt].status = "awarded")
         => proposals'[call[c].tgt].status = "awarded"]_vars

Resolvable(u) ==
  \E i \in 1..Len(mailbox) :
    mailbox[i].uid = u /\ Insertable(mailbox[i], mappings, {})

\* The message with UID u is stored as an inbound Message.
Persisted(u) == \E j \in 1..Len(emails) : emails[j].uid = u

\* C32: while polls keep running, a message that is in the INBOX and passes
\* the resolution checks is stored in the end, unless it is expunged first.
C32_ResolvableEventuallyStored ==
  \A u \in 1..MaxMsgs : Resolvable(u) ~> (Persisted(u) \/ ~Resolvable(u))

\* C33: with two runs of the poller that overlap, no message of the INBOX is
\* stored twice, and the watermark never goes down except for the reset of
\* a run that finds the INBOX empty.
C33_OverlappingPollsSafe ==
  /\ [](\A i, j \in 1..Len(emails) :
          (emails[i].uid /= 0 /\ emails[i].uid = emails[j].uid) => i = j)
  /\ [][lastProcessedUid' >= lastProcessedUid
          \/ (Len(mailbox) = 0 /\ lastProcessedUid' = 0)]_vars

\* The workers whose handler is in flight.
InFlight == {w \in Workers : runner.cur[w] /= 0}

\* C34: while processConcurrency runs, the number of handler invocations in
\* flight is at most the concurrency and at most the number of items.
C34_InFlightBounded ==
  runner.pc = "running" =>
    /\ Cardinality(InFlight) <= runner.concurrency
    /\ Cardinality(InFlight) <= Len(runner.items)

\* A call with more items than its concurrency has as many handlers in
\* flight as the concurrency allows, after a worker has taken a further item.
C34_Witness ==
  /\ runner.pc = "running"
  /\ runner.concurrency = 2
  /\ Len(runner.items) = MaxItems
  /\ Cardinality(InFlight) = 2
  /\ runner.index > 2

\* C35: the handler is never called twice for an item, and when
\* processConcurrency has returned it has been called for every item.
C35_EachItemOnce ==
  /\ \A i, j \in 1..Len(runner.taken) :
       runner.taken[i] = runner.taken[j] => i = j
  /\ runner.pc = "done" =>
       {runner.taken[i] : i \in 1..Len(runner.taken)} = 1..Len(runner.items)

\* A call with two workers and more items than workers has returned after
\* its workers took the later items in turn.
C35_Witness ==
  /\ runner.pc = "done"
  /\ runner.concurrency = 2
  /\ Len(runner.items) = MaxItems
  /\ Len(runner.taken) = MaxItems

\* C36: the reply a parse call runs the extraction on for a vendor is the
\* one received last among the inbound emails of that vendor.
C36_ExtractsLatestReceived ==
  [][\A c \in Calls :
       (call[c].pc = "p_emails" /\ call'[c].pc = "p_find")
         => \A v \in call'[c].parsed :
              \A i \in InboundOf(v) :
                emails[i].uid <= emails[call'[c].best[v]].uid]_vars

\* C37: when sendEmailWithRetry has returned, the attempts it reports is the
\* number of transport calls it made.
C37_AttemptsCountsCalls ==
  retry.pc = "done" => retry.attempts = Len(retry.calls)

C39_OneRejectionNotice == \A v \in Vendors : rejectNotifs[v] <= 1

\* C40: a run of the poller that has returned holds no mailbox lock and has
\* logged out.
C40_PollReleasesAndLogsOut ==
  \A p \in Pollers :
    poller[p].pc = "idle" => ~poller[p].locked /\ ~poller[p].connected

====
